---- MODULE Spec2Model ----
(***************************************************************************)
(* A model of the operational scripts of cvideo-click-pave: the drift      *)
(* detector (scripts/drift_detection.py), the discovery step of the        *)
(* cleanup script (scripts/cleanup.py), the bootstrap-creation workflow    *)
(* (scripts/create_bootstrap.py) and the retry helper of the bootstrap     *)
(* validator (scripts/validate_bootstrap.py).                              *)
(*                                                                         *)
(* Each script is a separate process, so each has its own specification    *)
(* over its own variables; the variables of the other scripts stay at      *)
(* their idle values.                                                      *)
(***************************************************************************)
EXTENDS Integers, Sequences, FiniteSets, TLC

VARIABLES
    \* ---- policy comparator applied to one pair of lists
    cmp_fn,          \* which comparator is applied
    cmp_aws,         \* the AWS-observed list (argument 1)
    cmp_expected,    \* the expected list (argument 2)
    cmp_ret,         \* <<>> before the call, <<(passed, issues)>> after it
    \* ---- one role check applied to one state of the role
    role_fn,         \* which role check is applied
    role_reply,      \* what AWS answers to the three calls of get_role_info
    role_ret,        \* <<>> before the call, <<outcome>> after it
    \* ---- one run of drift_detection.py
    d_i,                   \* place in `checks` of the next check to run
    d_results,             \* what each check run so far handed back
    d_all_checks_passed,   \* run_full_drift_detection's all_checks_passed
    d_all_issues,          \* run_full_drift_detection's all_issues
    d_calls,               \* every IAM call the run has issued, in order
    d_exit,                \* <<>> while running, <<status>> once exited
    \* ---- one discovery function of cleanup.py applied to one listing
    disc_fn,         \* which find_pave_* function is applied
    disc_reply,      \* what AWS answers to its list call
    disc_ret,        \* <<>> before the call, <<outcome>> after it
    \* ---- one call of retry_with_backoff
    r_max_attempts,  \* parameter max_attempts
    r_initial_delay, \* parameter initial_delay
    r_attempt,       \* the loop variable `attempt`
    r_errors,        \* the exception of every failed call of func, in order
    r_sleeps,        \* the argument of every time.sleep, in order
    r_calls,         \* how many times func was called
    r_pc,            \* "idle", "loop", "returned" or "raised"
    r_out,           \* the value returned or the exception raised
    \* ---- the AWS account and the working tree that create_bootstrap.py acts on
    b_user,          \* the IAM user bootstrap-user exists
    b_policy,        \* the managed policy PaveBootstrapPolicy exists
    b_role,          \* the IAM role PaveBootstrapRole exists
    b_attached,      \* PaveBootstrapPolicy is attached to bootstrap-user
    b_keys,          \* the access keys of bootstrap-user (their ids)
    b_next_key,      \* the id IAM gives to the next access key it creates
    b_bucket,        \* the bucket pave-tf-state-bucket-us-east-1 exists
    b_secret,        \* pave/bootstrap-credentials: <<>> or <<key id it holds>>
    b_file,          \* .secrets: <<>> or <<[key, mode]>>
    b_backup,        \* .secrets.backup: <<>> or <<[key, mode]>>
    \* ---- the runs of create_bootstrap.py, one entry per run
    b_pc,            \* where the run is in main
    b_local,         \* main's user_arn, policy_arn and access_key
    b_exit,          \* <<>> while running, <<status>> once exited
    b_faulted,       \* an AWS or file operation of the run failed
    b_before,        \* the account and the files as the run found them
    \* ---- a run of cleanup.py
    c_args,          \* --skip-confirm, and the answer typed at the prompt
    c_replies,       \* what list_users, list_roles, list_policies, list_buckets answer
    c_pc,            \* where main is
    c_found,         \* main's users, roles, policies, buckets
    c_i,             \* the position of the running cleanup_* loop in its list
    c_log,           \* the AWS and file operations attempted so far, in order
    c_failed,        \* the listings and resources a warning was printed for
    c_faults,        \* the kinds of exception raised so far
    c_removed,       \* the resources deleted from the account
    c_exit,          \* <<>> while running, <<status>> once exited
    \* ---- calls of create_bootstrap_user, create_bootstrap_policy, create_bootstrap_role
    f_account,       \* which of the user, the policy and the role exist
    f_ret,           \* per function: <<>>, or <<what its call did and returned>>
    \* ---- a run of rotate_keys.py
    k_args,          \* --compromised-key and --skip-confirm
    k_identity,      \* what sts.get_caller_identity answers
    k_answers,       \* what is typed at "Continue anyway?" and at "Continue?"
    k_before,        \* the access keys of --user as the run found them: id -> Status
    k_keys,          \* the access keys of --user: id -> Status
    k_file,          \* credentials/: whether it exists, and developer.env's key id
    k_new,           \* main's new_credentials: <<>>, or <<the new key's id>>
    k_pc,            \* where main is
    k_log,           \* the IAM calls issued so far, in order
    k_exit,          \* <<>> while running, <<status>> once exited
    \* ---- a run of destroy_bootstrap.py
    x_args,          \* --skip-confirm, and the answer typed at the prompt
    x_before,        \* the account as the run found it
    x_acct,          \* the account
    x_pc,            \* where main is
    x_log,           \* the AWS calls issued so far, in order
    x_printed,       \* per function and resource: done, absent, warning or error
    x_hit,           \* a call of the run has failed for a reason outside the account
    x_exit,          \* <<>> while running, <<status>> once exited
    \* ---- runs of backend_manager.py in one working directory
    g_file,          \* pave_infra.tf: <<>> when missing, <<content>> otherwise
    g_backup,        \* pave_infra.tf.backup, likewise
    g_runs,          \* the runs so far: mode, steps, files before and after, exit status
    g_on             \* the script is in use

cmp_vars == <<cmp_fn, cmp_aws, cmp_expected, cmp_ret>>
role_vars == <<role_fn, role_reply, role_ret>>
drift_vars == <<d_i, d_results, d_all_checks_passed, d_all_issues, d_calls, d_exit>>
disc_vars == <<disc_fn, disc_reply, disc_ret>>
retry_vars == <<r_max_attempts, r_initial_delay, r_attempt, r_errors, r_sleeps,
                r_calls, r_pc, r_out>>
account_vars == <<b_user, b_policy, b_role, b_attached, b_keys, b_next_key, b_bucket,
                  b_secret, b_file, b_backup>>
run_vars == <<b_pc, b_local, b_exit, b_faulted, b_before>>
boot_vars == <<account_vars, run_vars>>
create_vars == <<f_account, f_ret>>
cleanup_vars == <<c_args, c_replies, c_pc, c_found, c_i, c_log, c_failed, c_faults,
                  c_removed, c_exit>>
rot_vars == <<k_args, k_identity, k_answers, k_before, k_keys, k_file, k_new, k_pc,
              k_log, k_exit>>
destroy_vars == <<x_args, x_before, x_acct, x_pc, x_log, x_printed, x_hit, x_exit>>
backend_vars == <<g_file, g_backup, g_runs, g_on>>
vars == <<cmp_vars, role_vars, drift_vars, disc_vars, retry_vars, boot_vars, cleanup_vars, create_vars, rot_vars, destroy_vars, backend_vars>>

\* ------------------------------------------------------------------ bounds

\* Longest policy list handed to a comparator.
MaxPolicies == 3

\* Most statements in a role's trust policy.
MaxStatements == 2

\* Most users, roles, policies or buckets in one listing of the account.
MaxListed == 2

\* Largest max_attempts handed to retry_with_backoff (its default is 6).
MaxAttemptsTried == 6

\* How many times create_bootstrap.py is run against the account.
NumRuns == 2

\* How many times backend_manager.py is run in the working directory.
MaxBackendRuns == 3

\* ----------------------------------------------------------------- helpers

\* set(xs) of a Python list
ToSet(xs) == {xs[i] : i \in DOMAIN xs}

\* All lists over S of length at most n.
SeqsUpTo(S, n) == UNION {[1..k -> S] : k \in 0..n}

\* The list s rearranged by the permutation p of its index set.
Permute(s, p) == [i \in DOMAIN s |-> s[p[i]]]

\* ------------------------------------------------- drift_detection.py: data

\* Policy names a comparison can meet.
PolicyNames == {"A", "B", "C"}

\* An attached policy as get_user_info/get_role_info builds it:
\* {"name": PolicyName, "arn": PolicyArn}. A customer managed policy may carry
\* the name of an AWS managed one, so a name can come with two ARNs.
AttachedPolicies ==
    {[name |-> n, arn |-> "aws:" \o n] : n \in PolicyNames}
        \cup {[name |-> "A", arn |-> "local:A"]}

\* f"Missing policies in {resource_name}: {', '.join(missing)}" and its three
\* siblings. The names are joined in the iteration order of a Python set, which
\* the program does not control: the issue keeps them as a set.
Issue(kind, category, resource_name, names) ==
    [kind |-> kind, category |-> category, resource |-> resource_name,
     names |-> names]

\* -------------------------------------------- drift_detection.py: comparator

compare_policies_swapped(aws_policies, expected_policies, resource_name) ==
    LET aws_policy_names == {aws_policies[i].name : i \in DOMAIN aws_policies}
        expected_policy_set == ToSet(expected_policies)
        missing == aws_policy_names \ expected_policy_set
        extra == expected_policy_set \ aws_policy_names
        issues ==
            (IF missing # {}
                THEN <<Issue("Missing", "policies", resource_name, missing)>>
                ELSE <<>>)
            \o (IF extra # {}
                THEN <<Issue("Extra", "policies", resource_name, extra)>>
                ELSE <<>>)
    IN  [passed |-> Len(issues) = 0, issues |-> issues]

\* Number of places of the list xs that hold x.
Count(xs, x) == Cardinality({i \in DOMAIN xs : xs[i] = x})

compare_policies_multiset(aws_policies, expected_policies, resource_name) ==
    LET aws_names == [i \in DOMAIN aws_policies |-> aws_policies[i].name]
        missing == {n \in ToSet(expected_policies) :
                        Count(expected_policies, n) > Count(aws_names, n)}
        extra == {n \in ToSet(aws_names) :
                        Count(aws_names, n) > Count(expected_policies, n)}
        issues ==
            (IF missing # {}
                THEN <<Issue("Missing", "policies", resource_name, missing)>>
                ELSE <<>>)
            \o (IF extra # {}
                THEN <<Issue("Extra", "policies", resource_name, extra)>>
                ELSE <<>>)
    IN  [passed |-> Len(issues) = 0, issues |-> issues]

compare_policies(aws_policies, expected_policies, resource_name) ==
    LET aws_policy_names == {aws_policies[i].name : i \in DOMAIN aws_policies}
        expected_policy_set == ToSet(expected_policies)
        missing == expected_policy_set \ aws_policy_names
        extra == aws_policy_names \ expected_policy_set
        issues ==
            (IF missing # {}
                THEN <<Issue("Missing", "policies", resource_name, missing)>>
                ELSE <<>>)
            \o (IF extra # {}
                THEN <<Issue("Extra", "policies", resource_name, extra)>>
                ELSE <<>>)
    IN  [passed |-> Len(issues) = 0, issues |-> issues]

compare_inline_policies(aws_inline, expected_inline, resource_name) ==
    LET aws_set == ToSet(aws_inline)
        expected_set == ToSet(expected_inline)
        missing == expected_set \ aws_set
        extra == aws_set \ expected_set
        issues ==
            (IF missing # {}
                THEN <<Issue("Missing", "inline policies", resource_name, missing)>>
                ELSE <<>>)
            \o (IF extra # {}
                THEN <<Issue("Extra", "inline policies", resource_name, extra)>>
                ELSE <<>>)
    IN  [passed |-> Len(issues) = 0, issues |-> issues]

\* ------------------------------------------- drift_detection.py: AWS replies

\* The reply of one AWS API call: a value, or an error. NoSuchEntity and
\* AccessDenied arrive as botocore ClientError; EndpointConnectionError is a
\* botocore error that is no ClientError.
Ok(v) == [err |-> "none", val |-> v]
Err(code) == [err |-> code, val |-> <<>>]
IsClientError(code) == code \in {"NoSuchEntity", "AccessDenied"}

\* A value of a Principal entry: a JSON string, or a JSON list of strings.
Str(x) == [isstr |-> TRUE, s |-> x, l |-> <<>>]
Lst(xs) == [isstr |-> FALSE, s |-> "", l |-> xs]

\* A Principal: a JSON object from keys to values, or a bare string ("*").
PrincipalDict(d) == [isdict |-> TRUE, d |-> d]
PrincipalStar == [isdict |-> FALSE, d |-> <<>>]

\* One call of the IAM API, as the run issues it.
Call(api, target) == <<api, target>>

\* s contains pat as a substring (Python's `pat in s` on two strings).
Contains(s, pat) ==
    \E i \in 1..(Len(s) - Len(pat) + 1) : SubSeq(s, i, i + Len(pat) - 1) = pat

\* ------------------------------------------- drift_detection.py: get_*_info

\* What a function of the detector hands back: the value it returns or the
\* exception it raises, with the API calls it issued and the errors it printed.
get_user_info_retrying(username, reply) ==
    LET c1 == <<Call("list_attached_user_policies", username)>>
        c2 == c1 \o <<Call("list_user_policies", username)>>
        c3 == c2 \o <<Call("list_groups_for_user", username)>>
        failed(code, calls) ==
            IF IsClientError(code)
                THEN [raised |-> "none", info |-> [exists |-> FALSE],
                      calls |-> IF code = "NoSuchEntity" THEN calls
                                ELSE Append(calls, calls[Len(calls)]),
                      printed |-> IF code = "NoSuchEntity" THEN <<>>
                                  ELSE <<<<"Error getting user info", username, code>>>>]
                ELSE [raised |-> code, info |-> [exists |-> FALSE], calls |-> calls,
                      printed |-> <<>>]
    IN  IF reply.attached.err # "none" THEN failed(reply.attached.err, c1)
        ELSE IF reply.inline.err # "none" THEN failed(reply.inline.err, c2)
        ELSE IF reply.groups.err # "none" THEN failed(reply.groups.err, c3)
        ELSE [raised |-> "none",
              info |-> [exists |-> TRUE,
                        attached_policies |-> reply.attached.val,
                        inline_policies |-> reply.inline.val,
                        groups |-> reply.groups.val],
              calls |-> c3, printed |-> <<>>]

get_user_info(username, reply) ==
    LET c1 == <<Call("list_attached_user_policies", username)>>
        c2 == c1 \o <<Call("list_user_policies", username)>>
        c3 == c2 \o <<Call("list_groups_for_user", username)>>
        failed(code, calls) ==
            IF IsClientError(code)
                THEN [raised |-> "none", info |-> [exists |-> FALSE], calls |-> calls,
                      printed |-> IF code = "NoSuchEntity" THEN <<>>
                                  ELSE <<<<"Error getting user info", username, code>>>>]
                ELSE [raised |-> code, info |-> [exists |-> FALSE], calls |-> calls,
                      printed |-> <<>>]
    IN  IF reply.attached.err # "none" THEN failed(reply.attached.err, c1)
        ELSE IF reply.inline.err # "none" THEN failed(reply.inline.err, c2)
        ELSE IF reply.groups.err # "none" THEN failed(reply.groups.err, c3)
        ELSE [raised |-> "none",
              info |-> [exists |-> TRUE,
                        attached_policies |-> reply.attached.val,
                        inline_policies |-> reply.inline.val,
                        groups |-> reply.groups.val],
              calls |-> c3, printed |-> <<>>]

get_role_info(rolename, reply) ==
    LET c1 == <<Call("get_role", rolename)>>
        c2 == c1 \o <<Call("list_attached_role_policies", rolename)>>
        c3 == c2 \o <<Call("list_role_policies", rolename)>>
        failed(code, calls) ==
            IF IsClientError(code)
                THEN [raised |-> "none", info |-> [exists |-> FALSE], calls |-> calls,
                      printed |-> IF code = "NoSuchEntity" THEN <<>>
                                  ELSE <<<<"Error getting role info", rolename, code>>>>]
                ELSE [raised |-> code, info |-> [exists |-> FALSE], calls |-> calls,
                      printed |-> <<>>]
    IN  IF reply.role.err # "none" THEN failed(reply.role.err, c1)
        ELSE IF reply.attached.err # "none" THEN failed(reply.attached.err, c2)
        ELSE IF reply.inline.err # "none" THEN failed(reply.inline.err, c3)
        ELSE [raised |-> "none",
              info |-> [exists |-> TRUE,
                        attached_policies |-> reply.attached.val,
                        inline_policies |-> reply.inline.val,
                        assume_role_policy |-> reply.role.val],
              calls |-> c3, printed |-> <<>>]

\* --------------------------------------------- drift_detection.py: the checks

\* The issue strings that are no policy difference.
DoesNotExist(name) == Issue("DoesNotExist", "resource", name, {})
UnexpectedGroups(name, groups) == Issue("UnexpectedGroups", "groups", name, ToSet(groups))
CannotBeAssumed(name, by) == Issue("CannotBeAssumed", by, name, {})
FailedToCheck(name, exc) == Issue("FailedToCheck", exc, name, {})

\* What a check hands back: (passed, issues), or the exception it raises; with
\* the API calls issued, the comparisons made and the errors printed.
Raised(exc, got) ==
    [raised |-> exc, passed |-> FALSE, issues |-> <<>>, calls |-> got.calls,
     compared |-> <<>>, printed |-> got.printed]
Returned(passed, issues, got, compared) ==
    [raised |-> "none", passed |-> passed, issues |-> issues, calls |-> got.calls,
     compared |-> compared, printed |-> got.printed]

\* `if not match: issues.extend(policy_issues)`
ExtendIfNoMatch(r) == IF ~r.passed THEN r.issues ELSE <<>>

\* check_developer_user and check_admin_user: one body, two sets of names.
check_user_comparing_absent(username, expected_attached, expected_inline, reply) ==
    LET got == get_user_info(username, reply)
        user_info == got.info
        attached == IF user_info.exists THEN user_info.attached_policies ELSE <<>>
        inline == IF user_info.exists THEN user_info.inline_policies ELSE <<>>
        groups == IF user_info.exists THEN user_info.groups ELSE <<>>
        issues ==
            (IF ~user_info.exists THEN <<DoesNotExist(username)>> ELSE <<>>)
            \o ExtendIfNoMatch(compare_policies(attached, expected_attached, username))
            \o ExtendIfNoMatch(compare_inline_policies(inline, expected_inline, username))
            \o (IF groups # <<>> THEN <<UnexpectedGroups(username, groups)>> ELSE <<>>)
    IN  IF got.raised # "none" THEN Raised(got.raised, got)
        ELSE Returned(Len(issues) = 0, issues, got,
                      <<"compare_policies", "compare_inline_policies", "groups">>)

check_user(username, expected_attached, expected_inline, reply) ==
    LET got == get_user_info(username, reply)
        user_info == got.info
        issues ==
            ExtendIfNoMatch(compare_policies(user_info.attached_policies,
                                expected_attached, username))
            \o ExtendIfNoMatch(compare_inline_policies(user_info.inline_policies,
                                expected_inline, username))
            \o (IF user_info.groups # <<>>
                    THEN <<UnexpectedGroups(username, user_info.groups)>>
                    ELSE <<>>)
    IN  IF got.raised # "none" THEN Raised(got.raised, got)
        ELSE IF ~user_info.exists
            THEN Returned(FALSE, <<DoesNotExist(username)>>, got, <<>>)
        ELSE Returned(Len(issues) = 0, issues, got,
                      <<"compare_policies", "compare_inline_policies", "groups">>)

check_developer_user(reply) ==
    check_user("developer-user",
               <<"DeveloperExtendedPolicy", "AmazonEC2ReadOnlyAccess">>,
               <<"DeveloperComprehensivePolicy">>, reply)

check_admin_user(reply) ==
    check_user("admin-user", <<"PaveAdminPolicy">>, <<>>, reply)

admin_user_arn == "arn:aws:iam::256140316797:user/admin-user"
expected_federated ==
    "arn:aws:iam::256140316797:oidc-provider/token.actions.githubusercontent.com"

\* The loop over assume_policy["Statement"] of check_developer_role.
can_assume_admin_unwrapped(assume_policy) ==
    \E k \in DOMAIN assume_policy.Statement :
        LET principal == assume_policy.Statement[k].Principal
        IN  /\ principal.isdict
            /\ "AWS" \in DOMAIN principal.d
            /\ IF principal.d["AWS"].isstr
                  THEN Contains(principal.d["AWS"].s, admin_user_arn)
                  ELSE admin_user_arn \in ToSet(principal.d["AWS"].l)

can_assume_admin(assume_policy) ==
    \E k \in DOMAIN assume_policy.Statement :
        LET principal == assume_policy.Statement[k].Principal
        IN  /\ principal.isdict
            /\ "AWS" \in DOMAIN principal.d
            /\ LET aws_principals ==
                     IF principal.d["AWS"].isstr
                        THEN <<principal.d["AWS"].s>>
                        ELSE principal.d["AWS"].l
               IN  admin_user_arn \in ToSet(aws_principals)

\* The loop over assume_policy["Statement"] of check_cicd_role: the value of
\* Federated is compared with the expected string by ==, which no list equals.
can_assume_oidc(assume_policy) ==
    \E k \in DOMAIN assume_policy.Statement :
        LET principal == assume_policy.Statement[k].Principal
        IN  /\ principal.isdict
            /\ "Federated" \in DOMAIN principal.d
            /\ principal.d["Federated"].isstr
            /\ principal.d["Federated"].s = expected_federated

DeveloperRoleAttached ==
    <<"AmazonAPIGatewayAdministrator", "AmazonEC2FullAccess",
      "CloudWatchLogsFullAccess", "AmazonSQSFullAccess",
      "AmazonDynamoDBFullAccess", "AmazonS3FullAccess",
      "AWSCloudFormationFullAccess", "AWSLambda_FullAccess">>

CicdRoleAttached ==
    <<"CICDS3SpecificAccess", "AmazonS3FullAccess", "AWSLambda_FullAccess">>

check_developer_role(reply) ==
    LET got == get_role_info("DeveloperRole", reply)
        role_info == got.info
        issues ==
            ExtendIfNoMatch(compare_policies(role_info.attached_policies,
                                DeveloperRoleAttached, "DeveloperRole"))
            \o ExtendIfNoMatch(compare_inline_policies(role_info.inline_policies,
                                <<>>, "DeveloperRole"))
            \o (IF ~can_assume_admin(role_info.assume_role_policy)
                    THEN <<CannotBeAssumed("DeveloperRole", "admin-user")>>
                    ELSE <<>>)
    IN  IF got.raised # "none" THEN Raised(got.raised, got)
        ELSE IF ~role_info.exists
            THEN Returned(FALSE, <<DoesNotExist("DeveloperRole")>>, got, <<>>)
        ELSE Returned(Len(issues) = 0, issues, got,
                      <<"compare_policies", "compare_inline_policies", "trust">>)

check_cicd_role(reply) ==
    LET got == get_role_info("CICDDeploymentRole", reply)
        role_info == got.info
        issues ==
            ExtendIfNoMatch(compare_policies(role_info.attached_policies,
                                CicdRoleAttached, "CICDDeploymentRole"))
            \o ExtendIfNoMatch(compare_inline_policies(role_info.inline_policies,
                                <<>>, "CICDDeploymentRole"))
            \o (IF ~can_assume_oidc(role_info.assume_role_policy)
                    THEN <<CannotBeAssumed("CICDDeploymentRole", "GitHub Actions OIDC")>>
                    ELSE <<>>)
    IN  IF got.raised # "none" THEN Raised(got.raised, got)
        ELSE IF ~role_info.exists
            THEN Returned(FALSE, <<DoesNotExist("CICDDeploymentRole")>>, got, <<>>)
        ELSE Returned(Len(issues) = 0, issues, got,
                      <<"compare_policies", "compare_inline_policies", "trust">>)

\* ------------------------------------------- the comparator applied to inputs

CmpResource == "resource"

CmpIdle ==
    /\ cmp_fn = "none"
    /\ cmp_aws = <<>>
    /\ cmp_expected = <<>>
    /\ cmp_ret = <<>>

CmpInit ==
    /\ cmp_fn \in {"compare_policies", "compare_inline_policies"}
    /\ cmp_aws \in IF cmp_fn = "compare_policies"
                      THEN SeqsUpTo(AttachedPolicies, MaxPolicies)
                      ELSE SeqsUpTo(PolicyNames, MaxPolicies)
    /\ cmp_expected \in SeqsUpTo(PolicyNames, MaxPolicies)
    /\ cmp_ret = <<>>

ComparePolicies ==
    /\ cmp_fn = "compare_policies"
    /\ cmp_ret = <<>>
    /\ cmp_ret' = <<compare_policies(cmp_aws, cmp_expected, CmpResource)>>
    /\ UNCHANGED <<cmp_fn, cmp_aws, cmp_expected, role_vars, drift_vars, disc_vars, retry_vars, boot_vars, cleanup_vars, create_vars, rot_vars, destroy_vars, backend_vars>>

CompareInlinePolicies ==
    /\ cmp_fn = "compare_inline_policies"
    /\ cmp_ret = <<>>
    /\ cmp_ret' = <<compare_inline_policies(cmp_aws, cmp_expected, CmpResource)>>
    /\ UNCHANGED <<cmp_fn, cmp_aws, cmp_expected, role_vars, drift_vars, disc_vars, retry_vars, boot_vars, cleanup_vars, create_vars, rot_vars, destroy_vars, backend_vars>>

CmpNext == ComparePolicies \/ CompareInlinePolicies

\* ------------------------------------------- a role check applied to a role

other_user_arn == "arn:aws:iam::256140316797:user/developer-user"
admin_user_2_arn == "arn:aws:iam::256140316797:user/admin-user-2"

\* A JSON object with the one key k.
Obj(k, v) == [x \in {k} |-> v]
EmptyObj == [x \in {} |-> Str("")]

\* statement.get("Principal", {}) of the statements a trust policy can hold.
Principals ==
    { PrincipalDict(Obj("AWS", Str(admin_user_arn))),
      PrincipalDict(Obj("AWS", Lst(<<other_user_arn, admin_user_arn>>))),
      PrincipalDict(Obj("AWS", Str(other_user_arn))),
      PrincipalDict(Obj("AWS", Lst(<<other_user_arn>>))),
      PrincipalDict(Obj("AWS", Str(admin_user_2_arn))),
      PrincipalDict(Obj("Service", Str("ec2.amazonaws.com"))),
      PrincipalDict(Obj("Federated", Str(expected_federated))),
      PrincipalDict(Obj("Federated", Lst(<<expected_federated>>))),
      PrincipalDict(Obj("Federated", Str("arn:aws:iam::256140316797:oidc-provider/other"))),
      PrincipalDict(EmptyObj),
      PrincipalStar }

TrustStatements ==
    {[Effect |-> "Allow", Principal |-> p] : p \in Principals}
        \cup {[Effect |-> "Deny", Principal |-> PrincipalDict(Obj("AWS", Str(admin_user_arn)))]}

TrustPolicies ==
    {[Statement |-> ss] : ss \in SeqsUpTo(TrustStatements, MaxStatements)}

\* The attached policies of a resource that carries exactly the names `names`.
AttachedOf(names) ==
    [i \in DOMAIN names |->
        [name |-> names[i], arn |-> "arn:aws:iam::aws:policy/" \o names[i]]]

RoleReplies(expected_attached) ==
    {[role |-> Ok(doc), attached |-> Ok(a), inline |-> Ok(<<>>)] :
        doc \in TrustPolicies,
        a \in {AttachedOf(expected_attached), <<>>}}
    \cup {[role |-> Err("NoSuchEntity"), attached |-> Ok(<<>>), inline |-> Ok(<<>>)]}

RoleIdle ==
    /\ role_fn = "none"
    /\ role_reply = <<>>
    /\ role_ret = <<>>

RoleInit ==
    /\ role_fn \in {"check_developer_role", "check_cicd_role"}
    /\ role_reply \in IF role_fn = "check_developer_role"
                          THEN RoleReplies(DeveloperRoleAttached)
                          ELSE RoleReplies(CicdRoleAttached)
    /\ role_ret = <<>>

CheckDeveloperRole ==
    /\ role_fn = "check_developer_role"
    /\ role_ret = <<>>
    /\ role_ret' = <<check_developer_role(role_reply)>>
    /\ UNCHANGED <<role_fn, role_reply, cmp_vars, drift_vars, disc_vars, retry_vars, boot_vars, cleanup_vars, create_vars, rot_vars, destroy_vars, backend_vars>>

CheckCicdRole ==
    /\ role_fn = "check_cicd_role"
    /\ role_ret = <<>>
    /\ role_ret' = <<check_cicd_role(role_reply)>>
    /\ UNCHANGED <<role_fn, role_reply, cmp_vars, drift_vars, disc_vars, retry_vars, boot_vars, cleanup_vars, create_vars, rot_vars, destroy_vars, backend_vars>>

RoleNext == CheckDeveloperRole \/ CheckCicdRole

\* ------------------------------------- drift_detection.py: the whole run

\* The `checks` list of run_full_drift_detection.
checks == <<"developer-user", "admin-user", "DeveloperRole", "CICDDeploymentRole">>

\* What AWS may answer to the calls of one check. A call after the first
\* failing one is never issued, so its reply is never read.
Failures == {Err("NoSuchEntity"), Err("AccessDenied"), Err("EndpointConnectionError")}

UserReplies(expected_attached, expected_inline) ==
    [attached : {Ok(AttachedOf(expected_attached)),
                 Ok(AttachedOf(Tail(expected_attached)))} \cup Failures,
     inline : {Ok(expected_inline), Ok(Append(expected_inline, "ExtraInline"))}
                 \cup Failures,
     groups : {Ok(<<>>), Ok(<<"ops">>)} \cup Failures]

DriftRolePolicies ==
    {[Statement |-> <<[Effect |-> "Allow", Principal |-> p]>>] :
        p \in {PrincipalDict(Obj("AWS", Str(admin_user_arn))),
               PrincipalDict(Obj("Federated", Str(expected_federated)))}}

DriftRoleReplies(expected_attached) ==
    [role : {Ok(doc) : doc \in DriftRolePolicies} \cup Failures,
     attached : {Ok(AttachedOf(expected_attached)),
                 Ok(Append(AttachedOf(expected_attached),
                           [name |-> "ExtraPolicy", arn |-> "local:ExtraPolicy"]))}
                 \cup Failures,
     inline : {Ok(<<>>), Ok(<<"ExtraInline">>)} \cup Failures]

\* The error of the first failing call among the replies, "none" when all
\* three calls succeed, and the place of that call.
FirstError(replies) ==
    IF replies[1].err # "none" THEN replies[1].err
    ELSE IF replies[2].err # "none" THEN replies[2].err
    ELSE replies[3].err

FirstErrorAt(replies) ==
    IF replies[1].err # "none" THEN 1
    ELSE IF replies[2].err # "none" THEN 2
    ELSE IF replies[3].err # "none" THEN 3 ELSE 0

UserCalls(reply) == <<reply.attached, reply.inline, reply.groups>>
RoleCalls(reply) == <<reply.role, reply.attached, reply.inline>>

DriftIdle ==
    /\ d_i = 0
    /\ d_results = <<>>
    /\ d_all_checks_passed = TRUE
    /\ d_all_issues = <<>>
    /\ d_calls = <<>>
    /\ d_exit = <<>>

\* run_full_drift_detection up to the loop.
DriftInit ==
    /\ d_i = 1
    /\ d_results = <<>>
    /\ d_all_checks_passed = TRUE
    /\ d_all_issues = <<>>
    /\ d_calls = <<>>
    /\ d_exit = <<>>

\* all_checks_passed after the loop body has seen the outcome of one check.
AllChecksPassedAfter_ignoring_exceptions(before, out) ==
    IF out.raised = "none" /\ ~out.passed THEN FALSE ELSE before

AllChecksPassedAfter(before, out) ==
    IF out.raised # "none" THEN FALSE
    ELSE IF ~out.passed THEN FALSE
    ELSE before

\* all_issues after the loop body has seen the outcome of one check.
AllIssuesAfter(before, resource_name, out) ==
    IF out.raised # "none" THEN Append(before, FailedToCheck(resource_name, out.raised))
    ELSE IF ~out.passed THEN before \o out.issues
    ELSE before

\* One turn of the loop `for resource_name, check_func in checks`, where the
\* check handed back `out`; replies are what AWS answered to its calls.
LoopBody(replies, out) ==
    /\ d_results' = Append(d_results,
            [name |-> checks[d_i], err |-> FirstError(replies),
             err_at |-> FirstErrorAt(replies), raised |-> out.raised,
             passed |-> out.passed, issues |-> out.issues,
             calls |-> out.calls, compared |-> out.compared,
             printed |-> out.printed])
    /\ d_all_checks_passed' = AllChecksPassedAfter(d_all_checks_passed, out)
    /\ d_all_issues' = AllIssuesAfter(d_all_issues, checks[d_i], out)
    /\ d_calls' = d_calls \o out.calls
    /\ d_i' = d_i + 1
    /\ UNCHANGED <<d_exit, cmp_vars, role_vars, disc_vars, retry_vars, boot_vars, cleanup_vars, create_vars, rot_vars, destroy_vars, backend_vars>>

RunCheckDeveloperUser ==
    /\ d_exit = <<>>
    /\ d_i = 1
    /\ \E reply \in UserReplies(<<"DeveloperExtendedPolicy", "AmazonEC2ReadOnlyAccess">>,
                                <<"DeveloperComprehensivePolicy">>) :
          LoopBody(UserCalls(reply), check_developer_user(reply))

RunCheckAdminUser ==
    /\ d_exit = <<>>
    /\ d_i = 2
    /\ \E reply \in UserReplies(<<"PaveAdminPolicy">>, <<>>) :
          LoopBody(UserCalls(reply), check_admin_user(reply))

RunCheckDeveloperRole ==
    /\ d_exit = <<>>
    /\ d_i = 3
    /\ \E reply \in DriftRoleReplies(DeveloperRoleAttached) :
          LoopBody(RoleCalls(reply), check_developer_role(reply))

RunCheckCicdRole ==
    /\ d_exit = <<>>
    /\ d_i = 4
    /\ \E reply \in DriftRoleReplies(CicdRoleAttached) :
          LoopBody(RoleCalls(reply), check_cicd_role(reply))

\* The summary of run_full_drift_detection, its return value, and main's exit.
DriftExit ==
    /\ d_exit = <<>>
    /\ d_i = Len(checks) + 1
    /\ d_exit' = <<IF d_all_checks_passed THEN 0 ELSE 1>>
    /\ UNCHANGED <<d_i, d_results, d_all_checks_passed, d_all_issues, d_calls,
                   cmp_vars, role_vars, disc_vars, retry_vars, boot_vars, cleanup_vars, create_vars, rot_vars, destroy_vars, backend_vars>>

DriftNext ==
    \/ RunCheckDeveloperUser
    \/ RunCheckAdminUser
    \/ RunCheckDeveloperRole
    \/ RunCheckCicdRole
    \/ DriftExit

\* --------------------------------------------------- cleanup.py: discovery

\* What a find_pave_* function hands back: the list it returns, or the
\* exception it lets through (it catches ClientError alone).
Found(value) == [raised |-> "none", value |-> value, printed |-> <<>>]
ListingFailed(code, what) ==
    IF IsClientError(code)
        THEN [raised |-> "none", value |-> <<>>, printed |-> <<<<what, code>>>>]
        ELSE [raised |-> code, value |-> <<>>, printed |-> <<>>]

find_pave_users_any_user(reply) ==
    LET keep(username) ==
            /\ username # "pave-bootstrap-user"
            /\ \/ username = "admin-user"
               \/ username = "developer-user"
               \/ Contains(username, "-user")
    IN  IF reply.err # "none" THEN ListingFailed(reply.err, "Error listing users")
        ELSE Found(SelectSeq(reply.val, keep))

\* s begins with pat (Python's s.startswith(pat)).
StartsWith(s, pat) == Len(s) >= Len(pat) /\ SubSeq(s, 1, Len(pat)) = pat

find_pave_users_by_prefix(reply) ==
    LET keep(username) ==
            /\ username # "pave-bootstrap-user"
            /\ \/ username = "admin-user"
               \/ username = "developer-user"
               \/ StartsWith(username, "admin-user-")
               \/ StartsWith(username, "developer-user-")
    IN  IF reply.err # "none" THEN ListingFailed(reply.err, "Error listing users")
        ELSE Found(SelectSeq(reply.val, keep))

find_pave_users(reply) ==
    LET keep(username) ==
            /\ username # "pave-bootstrap-user"
            /\ \/ username = "admin-user"
               \/ username = "developer-user"
               \/ Contains(username, "admin-user-")
               \/ Contains(username, "developer-user-")
    IN  IF reply.err # "none" THEN ListingFailed(reply.err, "Error listing users")
        ELSE Found(SelectSeq(reply.val, keep))

find_pave_roles(reply) ==
    LET keep(role_name) ==
            /\ role_name # "PaveBootstrapRole"
            /\ \/ role_name = "CICDDeploymentRole"
               \/ role_name = "DeveloperRole"
               \/ Contains(role_name, "CICDDeploymentRole-")
               \/ Contains(role_name, "DeveloperRole-")
    IN  IF reply.err # "none" THEN ListingFailed(reply.err, "Error listing roles")
        ELSE Found(SelectSeq(reply.val, keep))

\* The entries of list_policies carry PolicyName and Arn; the candidates are
\* {"name": policy_name, "arn": policy["Arn"]}.
find_pave_policies(reply) ==
    LET keep(policy) ==
            /\ policy.PolicyName # "PaveBootstrapPolicy"
            /\ \/ policy.PolicyName = "CICDS3SpecificAccess"
               \/ policy.PolicyName = "PaveAdminPolicy"
               \/ Contains(policy.PolicyName, "CICDS3SpecificAccess-")
        kept == SelectSeq(reply.val, keep)
    IN  IF reply.err # "none" THEN ListingFailed(reply.err, "Error listing policies")
        ELSE Found([i \in DOMAIN kept |->
                        [name |-> kept[i].PolicyName, arn |-> kept[i].Arn]])

\* bucket.get("Name", ""): an entry without a name reads as "".
find_pave_buckets(reply) ==
    LET keep(bucket_name) ==
            /\ bucket_name # ""
            /\ \/ bucket_name = "pave-tf-state-bucket-us-east-1"
               \/ Contains(bucket_name, "pave-tf-state-bucket-")
    IN  IF reply.err # "none" THEN ListingFailed(reply.err, "Error listing buckets")
        ELSE Found(SelectSeq(reply.val, keep))

\* ---------------------------------- a discovery function applied to a listing

UserNames ==
    {"admin-user", "developer-user", "admin-user-prod", "developer-user-2",
     "x-admin-user-1", "admin-users", "other-user", "bootstrap-user",
     "pave-bootstrap-user"}

RoleNames ==
    {"CICDDeploymentRole", "DeveloperRole", "CICDDeploymentRole-dev",
     "my-DeveloperRole-x", "OtherRole", "PaveBootstrapRole"}

LocalPolicyNames ==
    {"CICDS3SpecificAccess", "PaveAdminPolicy", "CICDS3SpecificAccess-dev",
     "PaveAdminPolicy-dev", "BootstrapTerraformPolicy", "PaveBootstrapPolicy"}

BucketNames ==
    {"pave-tf-state-bucket-us-east-1", "pave-tf-state-bucket-eu",
     "my-pave-tf-state-bucket-x", "other-bucket", ""}

\* The lists of at most n members of S, none twice: the names of an account's
\* users (roles, policies, buckets) are unique.
Listings(S, n) ==
    {xs \in SeqsUpTo(S, n) : \A i, j \in DOMAIN xs : i # j => xs[i] # xs[j]}

PolicyEntry(n) == [PolicyName |-> n, Arn |-> "arn:aws:iam::256140316797:policy/" \o n]

ListingErrors == {Err("AccessDenied"), Err("EndpointConnectionError")}

DiscIdle ==
    /\ disc_fn = "none"
    /\ disc_reply = <<>>
    /\ disc_ret = <<>>

DiscInit ==
    /\ disc_fn \in {"find_pave_users", "find_pave_roles", "find_pave_policies",
                    "find_pave_buckets"}
    /\ disc_reply \in
          ListingErrors \cup
          {Ok(xs) : xs \in
              CASE disc_fn = "find_pave_users" -> Listings(UserNames, MaxListed)
                [] disc_fn = "find_pave_roles" -> Listings(RoleNames, MaxListed)
                [] disc_fn = "find_pave_policies" ->
                      Listings({PolicyEntry(n) : n \in LocalPolicyNames}, MaxListed)
                [] OTHER -> Listings(BucketNames, MaxListed)}
    /\ disc_ret = <<>>

FindPaveUsers ==
    /\ disc_fn = "find_pave_users"
    /\ disc_ret = <<>>
    /\ disc_ret' = <<find_pave_users(disc_reply)>>
    /\ UNCHANGED <<disc_fn, disc_reply, cmp_vars, role_vars, drift_vars, retry_vars, boot_vars, cleanup_vars, create_vars, rot_vars, destroy_vars, backend_vars>>

FindPaveRoles ==
    /\ disc_fn = "find_pave_roles"
    /\ disc_ret = <<>>
    /\ disc_ret' = <<find_pave_roles(disc_reply)>>
    /\ UNCHANGED <<disc_fn, disc_reply, cmp_vars, role_vars, drift_vars, retry_vars, boot_vars, cleanup_vars, create_vars, rot_vars, destroy_vars, backend_vars>>

FindPavePolicies ==
    /\ disc_fn = "find_pave_policies"
    /\ disc_ret = <<>>
    /\ disc_ret' = <<find_pave_policies(disc_reply)>>
    /\ UNCHANGED <<disc_fn, disc_reply, cmp_vars, role_vars, drift_vars, retry_vars, boot_vars, cleanup_vars, create_vars, rot_vars, destroy_vars, backend_vars>>

FindPaveBuckets ==
    /\ disc_fn = "find_pave_buckets"
    /\ disc_ret = <<>>
    /\ disc_ret' = <<find_pave_buckets(disc_reply)>>
    /\ UNCHANGED <<disc_fn, disc_reply, cmp_vars, role_vars, drift_vars, retry_vars, boot_vars, cleanup_vars, create_vars, rot_vars, destroy_vars, backend_vars>>

DiscNext == FindPaveUsers \/ FindPaveRoles \/ FindPavePolicies \/ FindPaveBuckets

\* ------------------------------------- validate_bootstrap.py: the retry loop

\* str(e) of the exceptions func can raise, and str(e).lower().
ErrorMessages ==
    {"An error occurred (InvalidClientTokenId)", "Unable to locate credentials",
     "An error occurred (NoSuchEntity)", "Connect timeout on endpoint URL"}

Lower(error_str) ==
    CASE error_str = "An error occurred (InvalidClientTokenId)" ->
            "an error occurred (invalidclienttokenid)"
      [] error_str = "Unable to locate credentials" -> "unable to locate credentials"
      [] error_str = "An error occurred (NoSuchEntity)" -> "an error occurred (nosuchentity)"
      [] error_str = "Connect timeout on endpoint URL" -> "connect timeout on endpoint url"

\* The keyword test of retry_with_backoff.
keywords ==
    {"invalidclienttokenid", "invalid", "token", "accessdenied", "unauthorized",
     "credentials"}

is_credential_error(e) == \E keyword \in keywords : Contains(Lower(e.msg), keyword)

\* A backoff that grows by one step per attempt instead of doubling.
LinearBackoff(n) == n + 1

\* 2**attempt
RECURSIVE Pow2(_)
Pow2(n) == IF n = 0 THEN 1 ELSE 2 * Pow2(n - 1)

RetryIdle ==
    /\ r_max_attempts = 0
    /\ r_initial_delay = 0
    /\ r_attempt = 0
    /\ r_errors = <<>>
    /\ r_sleeps = <<>>
    /\ r_calls = 0
    /\ r_pc = "idle"
    /\ r_out = <<>>

\* The call retry_with_backoff(func, max_attempts, initial_delay), at the
\* first turn of `for attempt in range(max_attempts)`. Every caller passes a
\* positive max_attempts (the default).
RetryInit ==
    /\ r_max_attempts \in 1..MaxAttemptsTried
    /\ r_initial_delay \in {1, 2}
    /\ r_attempt = 0
    /\ r_errors = <<>>
    /\ r_sleeps = <<>>
    /\ r_calls = 0
    /\ r_pc = "loop"
    /\ r_out = <<>>

\* `return func()`: func returns.
AttemptReturns ==
    /\ r_pc = "loop"
    /\ r_attempt < r_max_attempts
    /\ \E value \in BOOLEAN :
          r_out' = <<"returned", value>>
    /\ r_calls' = r_calls + 1
    /\ r_pc' = "returned"
    /\ UNCHANGED <<r_max_attempts, r_initial_delay, r_attempt, r_errors, r_sleeps,
                   cmp_vars, role_vars, drift_vars, disc_vars, boot_vars, cleanup_vars, create_vars, rot_vars, destroy_vars, backend_vars>>

\* What the except clause does with the exception e of this turn's call:
\* raise it, or sleep and go to the next turn.
IsLastAttempt_never == FALSE

IsLastAttempt == r_attempt = r_max_attempts - 1

\* An except clause that sleeps and retries whatever the exception says.
HandleException_retrying_all(e) ==
    IF IsLastAttempt
        THEN /\ r_pc' = "raised"
             /\ r_out' = <<"raised", e>>
             /\ UNCHANGED <<r_sleeps, r_attempt>>
        ELSE /\ r_sleeps' = Append(r_sleeps, r_initial_delay * Pow2(r_attempt))
             /\ r_attempt' = r_attempt + 1
             /\ r_pc' = "loop"
             /\ UNCHANGED r_out

HandleException(e) ==
    IF IsLastAttempt
        THEN /\ r_pc' = "raised"
             /\ r_out' = <<"raised", e>>
             /\ UNCHANGED <<r_sleeps, r_attempt>>
        ELSE IF is_credential_error(e)
            THEN /\ r_sleeps' = Append(r_sleeps, r_initial_delay * Pow2(r_attempt))
                 /\ r_attempt' = r_attempt + 1
                 /\ r_pc' = IF r_attempt + 1 < r_max_attempts THEN "loop" ELSE "raised"
                 /\ r_out' = IF r_attempt + 1 < r_max_attempts THEN r_out
                             ELSE <<"raised", [msg |-> "Failed after attempts",
                                               attempt |-> r_max_attempts]>>
            ELSE /\ r_pc' = "raised"
                 /\ r_out' = <<"raised", e>>
                 /\ UNCHANGED <<r_sleeps, r_attempt>>

\* `return func()`: func raises.
AttemptRaises ==
    /\ r_pc = "loop"
    /\ r_attempt < r_max_attempts
    /\ \E msg \in ErrorMessages :
          LET e == [msg |-> msg, attempt |-> r_attempt]
          IN  /\ r_errors' = Append(r_errors, e)
              /\ HandleException(e)
    /\ r_calls' = r_calls + 1
    /\ UNCHANGED <<r_max_attempts, r_initial_delay,
                   cmp_vars, role_vars, drift_vars, disc_vars, boot_vars, cleanup_vars, create_vars, rot_vars, destroy_vars, backend_vars>>

RetryNext == AttemptReturns \/ AttemptRaises

\* ------------------------------------------------- create_bootstrap.py

\* os.chmod(secrets_path, 0o600)
SecretsFileMode == 600

\* The mode of a file that open(path, "w") creates under the usual umask 022.
CreatedFileMode == 644

\* IAM's limit of access keys per user.
AccessKeysPerUser == 2

\* The ARNs of the bootstrap resources; the one of the policy is put together
\* from the account id that sts.get_caller_identity() gives.
account_id == "256140316797"
bootstrap_user_arn == "arn:aws:iam::256140316797:user/bootstrap-user"
bootstrap_role_arn == "arn:aws:iam::256140316797:role/PaveBootstrapRole"
bootstrap_policy_arn == "arn:aws:iam::" \o account_id \o ":policy/" \o "PaveBootstrapPolicy"

\* What iam.create_user / create_policy / create_role can answer: the resource
\* is created or, when one of that name exists, EntityAlreadyExists; or the
\* call is refused (a ClientError), or no answer arrives (no ClientError).
CreateReplies(exists) ==
    {IF exists THEN "EntityAlreadyExists" ELSE "Created", "AccessDenied",
     "EndpointConnectionError"}

\* What the call made in the EntityAlreadyExists branch can answer.
Lookups == {"Ok", "AccessDenied"}

\* An except clause for which no error code means 'already there'.
IsEntityAlreadyExists_never(code) == FALSE

\* e.response["Error"]["Code"] == "EntityAlreadyExists"
IsEntityAlreadyExists(code) == code = "EntityAlreadyExists"

\* The shape the three create_bootstrap_* functions share: the create call;
\* on a ClientError with code EntityAlreadyExists a second call, which is not
\* inside a try block of its own, and the ARN; on any other ClientError None
\* (ret = <<>>). An exception that is no ClientError is not caught.
CreateCall(create_api, lookup_api, arn, reply, lookup) ==
    IF reply = "Created"
        THEN [reply |-> reply, ret |-> <<arn>>, raised |-> "none", created |-> TRUE,
              calls |-> <<create_api>>]
    ELSE IF reply = "EndpointConnectionError"
        THEN [reply |-> reply, ret |-> <<>>, raised |-> reply, created |-> FALSE,
              calls |-> <<create_api>>]
    ELSE IF IsEntityAlreadyExists(reply)
        THEN IF lookup = "Ok"
                THEN [reply |-> reply, ret |-> <<arn>>, raised |-> "none",
                      created |-> FALSE, calls |-> <<create_api, lookup_api>>]
                ELSE [reply |-> reply, ret |-> <<>>, raised |-> lookup,
                      created |-> FALSE, calls |-> <<create_api, lookup_api>>]
    ELSE [reply |-> reply, ret |-> <<>>, raised |-> "none", created |-> FALSE,
          calls |-> <<create_api>>]

create_bootstrap_user_call(reply, lookup) ==
    CreateCall("create_user", "get_user", bootstrap_user_arn, reply, lookup)

create_bootstrap_policy_call(reply, lookup) ==
    CreateCall("create_policy", "get_caller_identity", bootstrap_policy_arn, reply, lookup)

create_bootstrap_role_call(reply, lookup) ==
    CreateCall("create_role", "get_role", bootstrap_role_arn, reply, lookup)

\* `if not user_arn: sys.exit(1)`, and main's `except Exception`.
EndsRun(out) == out.raised # "none" \/ out.ret = <<>>

Runs == 1..NumRuns

NoLocals == [user_arn |-> "", policy_arn |-> "", access_key |-> 0]

\* The account and the two files, as one value.
Account ==
    [user |-> b_user, policy |-> b_policy, role |-> b_role, attached |-> b_attached,
     keys |-> b_keys, bucket |-> b_bucket, secret |-> b_secret, file |-> b_file,
     backup |-> b_backup]

BootIdle ==
    /\ b_user = FALSE
    /\ b_policy = FALSE
    /\ b_role = FALSE
    /\ b_attached = FALSE
    /\ b_keys = {}
    /\ b_next_key = 1
    /\ b_bucket = FALSE
    /\ b_secret = <<>>
    /\ b_file = <<>>
    /\ b_backup = <<>>
    /\ b_pc = <<>>
    /\ b_local = <<>>
    /\ b_exit = <<>>
    /\ b_faulted = <<>>
    /\ b_before = <<>>

\* The account before the first run: any of the bootstrap resources may be
\* there already (key 0 stands for credentials of an earlier setup).
BootInit ==
    /\ b_user \in BOOLEAN
    /\ b_policy \in BOOLEAN
    /\ b_role \in BOOLEAN
    /\ b_attached \in (IF b_user /\ b_policy THEN BOOLEAN ELSE {FALSE})
    /\ b_keys \in (IF b_user THEN {{}, {1}, {1, 2}} ELSE {{}})
    /\ b_next_key = Cardinality(b_keys) + 1
    /\ b_bucket \in BOOLEAN
    /\ b_secret \in {<<>>, <<0>>}
    /\ b_file \in {<<>>, <<[key |-> 0, mode |-> CreatedFileMode]>>}
    /\ b_backup = <<>>
    /\ b_pc = [r \in Runs |-> "idle"]
    /\ b_local = [r \in Runs |-> NoLocals]
    /\ b_exit = [r \in Runs |-> <<>>]
    /\ b_faulted = [r \in Runs |-> FALSE]
    /\ b_before = [r \in Runs |-> <<>>]

\* The run r goes on to `next`; `fault` tells whether an operation of this
\* step failed.
Goto(r, next, fault) ==
    /\ b_pc' = [b_pc EXCEPT ![r] = next]
    /\ b_faulted' = [b_faulted EXCEPT ![r] = @ \/ fault]
    /\ b_exit' = [b_exit EXCEPT ![r] = IF next = "done" THEN <<0>>
                                       ELSE IF next = "failed" THEN <<1>> ELSE @]

\* sys.exit(1)
Exit1(r) == Goto(r, "failed", TRUE)

Others == <<cmp_vars, role_vars, drift_vars, disc_vars, retry_vars, cleanup_vars, create_vars, rot_vars, destroy_vars, backend_vars>>

\* main up to step 0: the clients and sts.get_caller_identity().
Start(r) ==
    /\ b_pc[r] = "idle"
    /\ b_before' = [b_before EXCEPT ![r] = <<Account>>]
    /\ \E fault \in BOOLEAN :
          IF fault THEN Exit1(r) ELSE Goto(r, "step0", FALSE)
    /\ UNCHANGED <<account_vars, b_local, Others>>

\* A step 0 that lists the keys and deletes none of them.
cleanup_existing_access_keys_keeping(r) ==
    /\ b_pc[r] = "step0"
    /\ Goto(r, "step1", FALSE)
    /\ UNCHANGED <<account_vars, b_local, b_before, Others>>

\* Step 0, cleanup_existing_access_keys: a ClientError of list_access_keys or
\* of a delete_access_key is printed and swallowed, and main, which does not
\* look at the result, goes on to step 1; any other exception reaches main's
\* `except Exception` and ends the run.
cleanup_existing_access_keys(r) ==
    /\ b_pc[r] = "step0"
    /\ \E fault \in {"none", "ClientError", "Exception"} :
          /\ IF fault = "Exception" THEN Exit1(r)
             ELSE Goto(r, "step1", fault = "ClientError")
          /\ IF ~b_user /\ fault = "none" THEN UNCHANGED b_keys    \* NoSuchEntity
             ELSE IF fault = "none" THEN b_keys' = {}
             ELSE \E deleted \in SUBSET b_keys :        \* list or a delete fails
                    /\ deleted # b_keys \/ b_keys = {}
                    /\ b_keys' = b_keys \ deleted
    /\ UNCHANGED <<b_user, b_policy, b_role, b_attached, b_next_key, b_bucket,
                   b_secret, b_file, b_backup, b_local, b_before, Others>>

\* Step 1, create_bootstrap_user: EntityAlreadyExists is answered by get_user.
create_bootstrap_user(r) ==
    /\ b_pc[r] = "step1"
    /\ \E reply \in CreateReplies(b_user), lookup \in Lookups :
          LET out == create_bootstrap_user_call(reply, lookup)
          IN  /\ b_user' = (b_user \/ out.created)
              /\ IF EndsRun(out)
                    THEN Exit1(r) /\ UNCHANGED b_local
                    ELSE /\ b_local' = [b_local EXCEPT ![r].user_arn = out.ret[1]]
                         /\ Goto(r, "step2", FALSE)
    /\ UNCHANGED <<b_policy, b_role, b_attached, b_keys, b_next_key, b_bucket,
                   b_secret, b_file, b_backup, b_before, Others>>

\* Step 2, create_bootstrap_policy: on EntityAlreadyExists the ARN is built
\* from the account id.
create_bootstrap_policy(r) ==
    /\ b_pc[r] = "step2"
    /\ \E reply \in CreateReplies(b_policy), lookup \in Lookups :
          LET out == create_bootstrap_policy_call(reply, lookup)
          IN  /\ b_policy' = (b_policy \/ out.created)
              /\ IF EndsRun(out)
                    THEN Exit1(r) /\ UNCHANGED b_local
                    ELSE /\ b_local' = [b_local EXCEPT ![r].policy_arn = out.ret[1]]
                         /\ Goto(r, "step3", FALSE)
    /\ UNCHANGED <<b_user, b_role, b_attached, b_keys, b_next_key, b_bucket,
                   b_secret, b_file, b_backup, b_before, Others>>

\* Step 3, attach_policy_to_user: NoSuchEntity (the user or the policy is gone)
\* is reported as 'already attached' and counts as success.
attach_policy_to_user(r) ==
    /\ b_pc[r] = "step3"
    /\ \E fault \in BOOLEAN :
          IF fault
             THEN Exit1(r) /\ UNCHANGED b_attached
             ELSE /\ b_attached' = (b_user /\ b_policy)
                  /\ Goto(r, "step4", FALSE)
    /\ UNCHANGED <<b_user, b_policy, b_role, b_keys, b_next_key, b_bucket,
                   b_secret, b_file, b_backup, b_local, b_before, Others>>

\* Step 4, create_access_key: IAM refuses a third key (LimitExceeded).
create_access_key(r) ==
    /\ b_pc[r] = "step4"
    /\ \E fault \in BOOLEAN :
          IF fault \/ ~b_user \/ Cardinality(b_keys) >= AccessKeysPerUser
             THEN Exit1(r) /\ UNCHANGED <<b_keys, b_next_key, b_local>>
             ELSE /\ b_keys' = b_keys \cup {b_next_key}
                  /\ b_next_key' = b_next_key + 1
                  /\ b_local' = [b_local EXCEPT ![r].access_key = b_next_key]
                  /\ Goto(r, "step5", FALSE)
    /\ UNCHANGED <<b_user, b_policy, b_role, b_attached, b_bucket,
                   b_secret, b_file, b_backup, b_before, Others>>

\* Step 5, create_s3_backend_bucket: an existing bucket is left as it is; a
\* failure after create_bucket leaves the new bucket behind.
create_s3_backend_bucket(r) ==
    /\ b_pc[r] = "step5"
    /\ \E fault \in BOOLEAN :
          IF fault
             THEN Exit1(r) /\ b_bucket' \in {b_bucket, TRUE}
             ELSE b_bucket' = TRUE /\ Goto(r, "step6", FALSE)
    /\ UNCHANGED <<b_user, b_policy, b_role, b_attached, b_keys, b_next_key,
                   b_secret, b_file, b_backup, b_local, b_before, Others>>

\* Step 6, store_credentials_in_secrets_manager: update_secret, or
\* create_secret when there is none; a failure of put_resource_policy comes
\* after the secret was written.
store_credentials_in_secrets_manager(r) ==
    /\ b_pc[r] = "step6"
    /\ \E fault \in BOOLEAN :
          IF fault
             THEN Exit1(r) /\ b_secret' \in {b_secret, <<b_local[r].access_key>>}
             ELSE b_secret' = <<b_local[r].access_key>> /\ Goto(r, "step7", FALSE)
    /\ UNCHANGED <<b_user, b_policy, b_role, b_attached, b_keys, b_next_key,
                   b_bucket, b_file, b_backup, b_local, b_before, Others>>

\* Step 7, update_secrets_file up to the end of the `with open(...)` block:
\* shutil.copy2 to .secrets.backup when .secrets exists, then the write, which
\* keeps the mode of an existing file and creates a new one under the umask.
update_secrets_file_write(r) ==
    /\ b_pc[r] = "step7"
    /\ \E fault \in BOOLEAN :
          IF fault
             THEN /\ Exit1(r)
                  /\ b_backup' \in {b_backup, IF b_file # <<>> THEN b_file ELSE b_backup}
                  /\ UNCHANGED b_file
             ELSE /\ b_backup' = (IF b_file # <<>> THEN b_file ELSE b_backup)
                  /\ b_file' = <<[key |-> b_local[r].access_key,
                                  mode |-> IF b_file # <<>> THEN b_file[1].mode
                                           ELSE CreatedFileMode]>>
                  /\ Goto(r, "chmod", FALSE)
    /\ UNCHANGED <<b_user, b_policy, b_role, b_attached, b_keys, b_next_key,
                   b_bucket, b_secret, b_local, b_before, Others>>

\* os.chmod(secrets_path, 0o600), `return True`, and the end of main.
update_secrets_file_chmod(r) ==
    /\ b_pc[r] = "chmod"
    /\ \E fault \in BOOLEAN :
          IF fault
             THEN Exit1(r) /\ UNCHANGED b_file
             ELSE /\ b_file' = <<[b_file[1] EXCEPT !.mode = SecretsFileMode]>>
                  /\ Goto(r, "done", FALSE)
    /\ UNCHANGED <<b_user, b_policy, b_role, b_attached, b_keys, b_next_key,
                   b_bucket, b_secret, b_backup, b_local, b_before, Others>>

\* One step of the run r after its start.
Step(r) ==
    \/ cleanup_existing_access_keys(r)
    \/ create_bootstrap_user(r)
    \/ create_bootstrap_policy(r)
    \/ attach_policy_to_user(r)
    \/ create_access_key(r)
    \/ create_s3_backend_bucket(r)
    \/ store_credentials_in_secrets_manager(r)
    \/ update_secrets_file_write(r)
    \/ update_secrets_file_chmod(r)

Finished(r) == b_pc[r] \in {"done", "failed"}

\* The operator starts a run when the one before has exited.
StartInTurn(r) ==
    /\ IF r = 1 THEN TRUE ELSE Finished(r - 1)
    /\ Start(r)

BootNextInTurn == \E r \in Runs : StartInTurn(r) \/ Step(r)

\* Two operators run create_bootstrap.py against the account at the same
\* time: the script takes no lock, so the steps of the two runs interleave.
ConcurrentRuns == {1, 2}
BootNextConcurrent == \E r \in ConcurrentRuns : Start(r) \/ Step(r)

\* ------------------------------ create_bootstrap.py: the create functions

CreateFunctions == {"create_bootstrap_user", "create_bootstrap_policy", "create_bootstrap_role"}

CreateIdle ==
    /\ f_account = <<>>
    /\ f_ret = <<>>

CreateInit ==
    /\ f_account \in [CreateFunctions -> BOOLEAN]
    /\ f_ret = [fn \in CreateFunctions |-> <<>>]

OutsideCreate == <<cmp_vars, role_vars, drift_vars, disc_vars, retry_vars, boot_vars,
                   cleanup_vars, rot_vars, destroy_vars, backend_vars>>

\* The call of `fn`, which did and returned `out`.
Called(fn, out) ==
    /\ f_ret[fn] = <<>>
    /\ f_ret' = [f_ret EXCEPT ![fn] = <<out>>]
    /\ f_account' = [f_account EXCEPT ![fn] = @ \/ out.created]
    /\ UNCHANGED OutsideCreate

CallCreateBootstrapUser ==
    /\ f_ret # <<>>
    /\ \E reply \in CreateReplies(f_account["create_bootstrap_user"]), lookup \in Lookups :
          Called("create_bootstrap_user", create_bootstrap_user_call(reply, lookup))

CallCreateBootstrapPolicy ==
    /\ f_ret # <<>>
    /\ \E reply \in CreateReplies(f_account["create_bootstrap_policy"]), lookup \in Lookups :
          Called("create_bootstrap_policy", create_bootstrap_policy_call(reply, lookup))

CallCreateBootstrapRole ==
    /\ f_ret # <<>>
    /\ \E reply \in CreateReplies(f_account["create_bootstrap_role"]), lookup \in Lookups :
          Called("create_bootstrap_role", create_bootstrap_role_call(reply, lookup))

CreateNext == CallCreateBootstrapUser \/ CallCreateBootstrapPolicy \/ CallCreateBootstrapRole

\* ------------------------------------------------- cleanup.py: the run

\* The names an account lists in a run of cleanup.py.
CleanupUserNames == {"admin-user", "developer-user", "bootstrap-user"}
CleanupRoleNames == {"DeveloperRole", "CICDDeploymentRole"}
CleanupPolicyNames == {"PaveAdminPolicy"}
CleanupBucketNames == {"pave-tf-state-bucket-us-east-1"}

\* What the prompt "Are you sure you want to continue? (y/N): " can be
\* answered, and confirmation.lower().
Answers == {"y", "Y", "n", "yes", ""}
\* A prompt that takes every answer for "y".
LowerAnswer_always_y(confirmation) == "y"

LowerAnswer(confirmation) ==
    CASE confirmation = "Y" -> "y"
      [] OTHER -> confirmation

NothingFound == [users |-> <<>>, roles |-> <<>>, policies |-> <<>>, buckets |-> <<>>]

CleanupIdle ==
    /\ c_args = <<>>
    /\ c_replies = <<>>
    /\ c_pc = "idle"
    /\ c_found = NothingFound
    /\ c_i = 0
    /\ c_log = <<>>
    /\ c_failed = {}
    /\ c_faults = {}
    /\ c_removed = {}
    /\ c_exit = <<>>

CleanupInit ==
    /\ c_args \in [skip_confirm : {TRUE}, confirmation : {""}] \cup
                  [skip_confirm : {FALSE}, confirmation : Answers]
    /\ c_replies \in
          [users : ListingErrors \cup {Ok(xs) : xs \in Listings(CleanupUserNames, MaxListed)},
           roles : {Err("AccessDenied")} \cup
                   {Ok(xs) : xs \in Listings(CleanupRoleNames, MaxListed)},
           policies : {Err("AccessDenied")} \cup
                      {Ok(xs) : xs \in Listings({PolicyEntry(n) : n \in CleanupPolicyNames},
                                                MaxListed)},
           buckets : {Err("AccessDenied")} \cup
                     {Ok(xs) : xs \in Listings(CleanupBucketNames, MaxListed)}]
    /\ c_pc = "confirm"
    /\ c_found = NothingFound
    /\ c_i = 0
    /\ c_log = <<>>
    /\ c_failed = {}
    /\ c_faults = {}
    /\ c_removed = {}
    /\ c_exit = <<>>

OutsideCleanup == <<cmp_vars, role_vars, drift_vars, disc_vars, retry_vars, boot_vars,
                    create_vars, rot_vars, destroy_vars, backend_vars>>

\* main, from parse_args to the end of the confirmation: without
\* --skip-confirm an answer other than y or Y ends the run with sys.exit(0).
CleanupConfirm ==
    /\ c_pc = "confirm"
    /\ IF ~c_args.skip_confirm /\ LowerAnswer(c_args.confirmation) # "y"
          THEN c_pc' = "cancelled" /\ c_exit' = <<0>>
          ELSE c_pc' = "clients" /\ UNCHANGED c_exit
    /\ UNCHANGED <<c_args, c_replies, c_found, c_i, c_log, c_failed, c_faults,
                   c_removed, OutsideCleanup>>

\* get_boto3_client("iam") and get_boto3_client("s3"): sys.exit(1) when boto3
\* cannot make a client.
CleanupGetClients ==
    /\ c_pc = "clients"
    /\ \E ok \in BOOLEAN :
          IF ok THEN c_pc' = "discover" /\ UNCHANGED <<c_exit, c_faults>>
          ELSE /\ c_pc' = "failed"
               /\ c_exit' = <<1>>
               /\ c_faults' = c_faults \cup {"NoCredentialsError"}
    /\ UNCHANGED <<c_args, c_replies, c_found, c_i, c_log, c_failed, c_removed,
                   OutsideCleanup>>

\* The operations a listing of the four find_pave_* calls stands for, up to
\* and including the first that lets an exception through.
RECURSIVE ListingOps(_, _)
ListingOps(results, k) ==
    IF k > Len(results) THEN <<>>
    ELSE <<<<results[k].op, "">>>> \o
         (IF results[k].ret.raised # "none" THEN <<>> ELSE ListingOps(results, k + 1))

\* main, the discovery and the report: the four find_pave_* calls, then
\* `return` when all four lists are empty. An exception that a find_pave_*
\* function does not catch ends the run with a traceback (status 1).
CleanupDiscover ==
    /\ c_pc = "discover"
    /\ LET users == find_pave_users(c_replies.users)
           roles == find_pave_roles(c_replies.roles)
           policies == find_pave_policies(c_replies.policies)
           buckets == find_pave_buckets(c_replies.buckets)
           results == <<[op |-> "list_users", ret |-> users],
                        [op |-> "list_roles", ret |-> roles],
                        [op |-> "list_policies", ret |-> policies],
                        [op |-> "list_buckets", ret |-> buckets]>>
           crashed == \E k \in 1..4 : results[k].ret.raised # "none"
           called == {k \in 1..4 : \A h \in 1..(k - 1) : results[h].ret.raised = "none"}
           found == [users |-> users.value, roles |-> roles.value,
                     policies |-> policies.value, buckets |-> buckets.value]
       IN  /\ c_log' = c_log \o ListingOps(results, 1)
           /\ c_failed' = c_failed \cup
                 {<<"listing", results[k].op>> :
                     k \in {j \in called : results[j].ret.printed # <<>>}}
           /\ c_faults' = c_faults
                 \cup (IF \E k \in called : results[k].ret.printed # <<>>
                       THEN {"ClientError"} ELSE {})
                 \cup (IF crashed THEN {"Exception"} ELSE {})
           /\ IF crashed
                 THEN c_pc' = "crashed" /\ c_exit' = <<1>> /\ UNCHANGED <<c_found, c_i>>
                 ELSE /\ c_found' = found
                      /\ IF found = NothingFound
                            THEN c_pc' = "done" /\ c_exit' = <<0>> /\ UNCHANGED c_i
                            ELSE c_pc' = "users" /\ c_i' = 1 /\ UNCHANGED c_exit
    /\ UNCHANGED <<c_args, c_replies, c_removed, OutsideCleanup>>

\* A loop body that deletes the resource before it prepares the deletion.
ResourceOps_delete_first(kind) ==
    CASE kind = "user" -> <<"delete_user", "cleanup_user_access_keys", "cleanup_user_policies">>
      [] kind = "role" -> <<"delete_role", "cleanup_role_policies">>
      [] kind = "policy" -> <<"delete_policy">>
      [] kind = "bucket" -> <<"delete_bucket", "empty_s3_bucket">>

\* What a cleanup_* loop does for one resource, in order: the preparations
\* (each catches ClientError and prints a warning) and the delete call, which
\* the loop wraps in its own try/except ClientError.
ResourceOps(kind) ==
    CASE kind = "user" -> <<"cleanup_user_access_keys", "cleanup_user_policies", "delete_user">>
      [] kind = "role" -> <<"cleanup_role_policies", "delete_role">>
      [] kind = "policy" -> <<"delete_policy">>
      [] kind = "bucket" -> <<"empty_s3_bucket", "delete_bucket">>

\* An except clause that lets every exception leave the loop.
Propagates_always(fault) == TRUE

\* `except ClientError`: a ClientError is caught where it is raised; any other
\* exception leaves the loop, and main, with a traceback.
Propagates(fault) == fault # "ClientError"

\* One turn of a cleanup_* loop, for the resource `name`. Either no operation
\* fails, or the operation number `failing` does, with a ClientError or with
\* another exception; a delete that fails leaves the resource in the account.
CleanupOne(kind, name) ==
    LET ops == ResourceOps(kind)
        done(k) == [j \in 1..k |-> <<ops[j], name>>]
    IN  \E failing \in 0..Len(ops), fault \in {"ClientError", "Exception"} :
           IF failing = 0
              THEN /\ fault = "ClientError"
                   /\ c_log' = c_log \o done(Len(ops))
                   /\ c_removed' = c_removed \cup {<<kind, name>>}
                   /\ c_i' = c_i + 1
                   /\ UNCHANGED <<c_failed, c_faults, c_pc, c_exit>>
              ELSE IF Propagates(fault)
                 THEN /\ c_log' = c_log \o done(failing)
                      /\ c_faults' = c_faults \cup {fault}
                      /\ c_pc' = "crashed"
                      /\ c_exit' = <<1>>
                      /\ UNCHANGED <<c_failed, c_removed, c_i>>
                 ELSE /\ c_log' = c_log \o done(Len(ops))
                      /\ c_failed' = c_failed \cup {<<kind, name>>}
                      /\ c_faults' = c_faults \cup {fault}
                      /\ c_removed' = IF failing = Len(ops) THEN c_removed
                                      ELSE c_removed \cup {<<kind, name>>}
                      /\ c_i' = c_i + 1
                      /\ UNCHANGED <<c_pc, c_exit>>

\* The end of a cleanup_* loop (at once when the list is empty): main calls
\* the next one.
CleanupGoOn(next) ==
    /\ c_pc' = next
    /\ c_i' = 1
    /\ UNCHANGED <<c_log, c_failed, c_faults, c_removed, c_exit>>

cleanup_users ==
    /\ c_pc = "users"
    /\ IF c_i > Len(c_found.users) THEN CleanupGoOn("roles")
       ELSE CleanupOne("user", c_found.users[c_i])
    /\ UNCHANGED <<c_args, c_replies, c_found, OutsideCleanup>>

cleanup_roles ==
    /\ c_pc = "roles"
    /\ IF c_i > Len(c_found.roles) THEN CleanupGoOn("policies")
       ELSE CleanupOne("role", c_found.roles[c_i])
    /\ UNCHANGED <<c_args, c_replies, c_found, OutsideCleanup>>

cleanup_policies ==
    /\ c_pc = "policies"
    /\ IF c_i > Len(c_found.policies) THEN CleanupGoOn("buckets")
       ELSE CleanupOne("policy", c_found.policies[c_i].name)
    /\ UNCHANGED <<c_args, c_replies, c_found, OutsideCleanup>>

cleanup_buckets ==
    /\ c_pc = "buckets"
    /\ IF c_i > Len(c_found.buckets) THEN CleanupGoOn("local")
       ELSE CleanupOne("bucket", c_found.buckets[c_i])
    /\ UNCHANGED <<c_args, c_replies, c_found, OutsideCleanup>>

\* cleanup_local_files, which catches every Exception, and the end of main.
cleanup_local_files ==
    /\ c_pc = "local"
    /\ c_log' = Append(c_log, <<"cleanup_local_files", "">>)
    /\ \E ok \in BOOLEAN :
          IF ok THEN /\ c_removed' = c_removed \cup {<<"local", "files">>}
                     /\ UNCHANGED c_failed
          ELSE /\ c_failed' = c_failed \cup {<<"local", "files">>}
               /\ UNCHANGED c_removed
    /\ c_pc' = "done"
    /\ c_exit' = <<0>>
    /\ UNCHANGED <<c_args, c_replies, c_found, c_i, c_faults, OutsideCleanup>>

CleanupNext ==
    \/ CleanupConfirm
    \/ CleanupGetClients
    \/ CleanupDiscover
    \/ cleanup_users
    \/ cleanup_roles
    \/ cleanup_policies
    \/ cleanup_buckets
    \/ cleanup_local_files

\* ------------------------------------------------------- rotate_keys.py

\* The ids of the keys --user can hold before the run, the id IAM gives the
\* key the run creates, and an id that is no key of --user.
OldKeyIds == {"AKIAOLD1", "AKIAOLD2"}
NewKeyId == "AKIANEW3"
ForeignKeyId == "AKIAOTHER"
KeyStatuses == {"Active", "Inactive"}

\* The access keys a user can hold: id -> Status.
KeyRings == UNION {[ids -> KeyStatuses] : ids \in SUBSET OldKeyIds}

\* The Arn of get_caller_identity: three IAM users and an assumed role.
CallerArns ==
    {"arn:aws:iam::256140316797:user/bootstrap-user",
     "arn:aws:iam::256140316797:user/Bootstrap-Admin",
     "arn:aws:iam::256140316797:user/admin-user",
     "arn:aws:sts::256140316797:assumed-role/DeveloperRole/dev"}

\* arn.split(":user/")[1], for an arn that contains ":user/" once.
UserOfArn(arn) ==
    LET i == CHOOSE j \in 1..Len(arn) : SubSeq(arn, j, j + 5) = ":user/"
    IN SubSeq(arn, i + 6, Len(arn))

\* current_user.lower()
LowerUser(current_user) ==
    CASE current_user = "Bootstrap-Admin" -> "bootstrap-admin"
      [] OTHER -> current_user

\* credentials/ and credentials/developer.env before the run.
CredentialDirs ==
    {[dir |-> FALSE, key |-> <<>>], [dir |-> TRUE, key |-> <<>>]} \cup
    {[dir |-> TRUE, key |-> <<k>>] : k \in OldKeyIds}

RotateIdle ==
    /\ k_args = <<>>
    /\ k_identity = <<>>
    /\ k_answers = <<>>
    /\ k_before = <<>>
    /\ k_keys = <<>>
    /\ k_file = <<>>
    /\ k_new = <<>>
    /\ k_pc = "idle"
    /\ k_log = <<>>
    /\ k_exit = <<>>

RotateInit ==
    /\ k_args \in [compromised_key : OldKeyIds \cup {ForeignKeyId}, skip_confirm : BOOLEAN]
    /\ k_identity \in {Err("ClientError")} \cup {Ok(arn) : arn \in CallerArns}
    /\ k_answers \in IF k_args.skip_confirm THEN {<<>>} ELSE [1..2 -> {"y", "Y", "n"}]
    /\ k_before \in KeyRings
    /\ k_keys = k_before
    /\ k_file \in CredentialDirs
    /\ k_new = <<>>
    /\ k_pc = "identity"
    /\ k_log = <<>>
    /\ k_exit = <<>>

OutsideRotate == <<cmp_vars, role_vars, drift_vars, disc_vars, retry_vars, boot_vars,
                   cleanup_vars, create_vars, destroy_vars, backend_vars>>

\* What an IAM call of the run can do: answer, raise ClientError, or raise
\* another exception (a timeout, say) whose request IAM may have served.
RotateFaults == {"none", "ClientError", "Exception"}

\* sys.exit(1), or an exception no handler of the script catches.
RotateExit1 == k_pc' = "failed" /\ k_exit' = <<1>>

\* get_current_user: a ClientError, or an Arn without ":user/", is sys.exit(1).
get_current_user ==
    /\ k_pc = "identity"
    /\ k_log' = Append(k_log, Call("get_caller_identity", ""))
    /\ IF k_identity.err # "none"
          THEN RotateExit1
          ELSE IF ~Contains(k_identity.val, ":user/")
                  THEN RotateExit1
                  ELSE k_pc' = "confirm" /\ UNCHANGED k_exit
    /\ UNCHANGED <<k_args, k_identity, k_answers, k_before, k_keys, k_file, k_new,
                   OutsideRotate>>

\* main, the two prompts: "Continue anyway?" when the caller's name does not
\* contain "bootstrap", then "Continue?"; both are skipped by --skip-confirm,
\* and an answer other than y or Y is sys.exit(1).
ConfirmRotation ==
    /\ k_pc = "confirm"
    /\ LET current_user == UserOfArn(k_identity.val)
           warned == ~Contains(LowerUser(current_user), "bootstrap")
       IN IF k_args.skip_confirm
             THEN k_pc' = "list" /\ UNCHANGED k_exit
             ELSE IF warned /\ LowerAnswer(k_answers[1]) # "y"
                     THEN RotateExit1
                     ELSE IF LowerAnswer(k_answers[2]) # "y"
                             THEN RotateExit1
                             ELSE k_pc' = "list" /\ UNCHANGED k_exit
    /\ UNCHANGED <<k_args, k_identity, k_answers, k_before, k_keys, k_file, k_new,
                   k_log, OutsideRotate>>

\* list_access_keys(args.user): a ClientError is sys.exit(1); the keys are
\* only printed.
list_access_keys ==
    /\ k_pc = "list"
    /\ k_log' = Append(k_log, Call("list_access_keys", "developer-user"))
    /\ \E fault \in RotateFaults :
          IF fault # "none"
             THEN RotateExit1
             ELSE k_pc' = "create" /\ UNCHANGED k_exit
    /\ UNCHANGED <<k_args, k_identity, k_answers, k_before, k_keys, k_file, k_new,
                   OutsideRotate>>

\* The user's keys when IAM has created nothing.
WithoutNewKey(keys, id) == keys

\* The user's keys after IAM has created the key `id`.
WithNewKey(keys, id) ==
    [k \in DOMAIN keys \cup {id} |-> IF k = id THEN "Active" ELSE keys[k]]

\* create_new_access_key(args.user): IAM refuses a third key (LimitExceeded);
\* every ClientError is sys.exit(1), and main's `except Exception` turns any
\* other exception into sys.exit(1) too.
create_new_access_key ==
    /\ k_pc = "create"
    /\ k_log' = Append(k_log, Call("create_access_key", "developer-user"))
    /\ \E fault \in RotateFaults :
          IF fault = "ClientError" \/ Cardinality(DOMAIN k_keys) >= AccessKeysPerUser
             THEN RotateExit1 /\ UNCHANGED <<k_keys, k_new>>
             ELSE IF fault = "Exception"
                     THEN /\ RotateExit1
                          /\ k_keys' \in {k_keys, WithNewKey(k_keys, NewKeyId)}
                          /\ UNCHANGED k_new
                     ELSE /\ k_keys' = WithNewKey(k_keys, NewKeyId)
                          /\ k_new' = <<NewKeyId>>
                          /\ k_pc' = "file"
                          /\ UNCHANGED k_exit
    /\ UNCHANGED <<k_args, k_identity, k_answers, k_before, k_file, OutsideRotate>>

\* main's update of credentials/developer.env: nothing without the directory
\* or the file; update_credential_file replaces the AWS_ACCESS_KEY_ID line and
\* only prints a message when reading or writing raises.
update_credential_file ==
    /\ k_pc = "file"
    /\ \E raised \in BOOLEAN :
          IF k_file.dir /\ k_file.key # <<>> /\ ~raised
             THEN k_file' = [k_file EXCEPT !.key = k_new]
             ELSE UNCHANGED k_file
    /\ k_pc' = "deactivate"
    /\ UNCHANGED <<k_args, k_identity, k_answers, k_before, k_keys, k_new, k_log,
                   k_exit, OutsideRotate>>

\* DeleteAccessKey served by IAM for the user's key `id`.
Deleted(keys, id) == [k \in DOMAIN keys \ {id} |-> keys[k]]

\* UpdateAccessKey(Status = "Inactive") served by IAM for the user's key `id`.
Deactivated(keys, id) == [keys EXCEPT ![id] = "Inactive"]

\* deactivate_access_key(args.user, args.compromised_key): an id that is no
\* key of the user is NoSuchEntity; every ClientError is sys.exit(1). After
\* it main prints "Key rotation completed successfully!" and ends.
deactivate_access_key ==
    /\ k_pc = "deactivate"
    /\ k_log' = Append(k_log, Call("update_access_key", k_args.compromised_key))
    /\ \E fault \in RotateFaults :
          IF fault = "ClientError" \/ k_args.compromised_key \notin DOMAIN k_keys
             THEN RotateExit1 /\ UNCHANGED k_keys
             ELSE IF fault = "Exception"
                     THEN /\ RotateExit1
                          /\ k_keys' \in {k_keys, Deactivated(k_keys, k_args.compromised_key)}
                     ELSE /\ k_keys' = Deactivated(k_keys, k_args.compromised_key)
                          /\ k_pc' = "done"
                          /\ k_exit' = <<0>>
    /\ UNCHANGED <<k_args, k_identity, k_answers, k_before, k_file, k_new, OutsideRotate>>

RotateNext ==
    \/ get_current_user
    \/ ConfirmRotation
    \/ list_access_keys
    \/ create_new_access_key
    \/ update_credential_file
    \/ deactivate_access_key

\* ------------------------------------------------- destroy_bootstrap.py

DestroyUser == "bootstrap-user"
DestroyRole == "PaveBootstrapRole"
\* policy_names of delete_bootstrap_policies
DestroyPolicyNames == <<"PaveBootstrapPolicy", "BootstrapTerraformPolicy">>
\* A group of the account that a bootstrap policy can be attached to.
OtherGroup == "admins"
DestroyKeyIds == {"AKIABOOT1", "AKIABOOT2"}

\* The attachments of the bootstrap policies: <<kind of entity, entity, policy>>.
PossibleAttachments ==
    {<<"user", DestroyUser, "PaveBootstrapPolicy">>,
     <<"role", DestroyRole, "PaveBootstrapPolicy">>,
     <<"group", OtherGroup, "BootstrapTerraformPolicy">>}

\* The accounts destroy_bootstrap.py is run against: the secret, the user
\* with its keys, the entities that have an inline policy, the role, the
\* attachments, the managed policies, and those with a non-default version.
DestroyAccounts ==
    {a \in [secret : BOOLEAN, user : BOOLEAN,
            keys : {{}, {"AKIABOOT1"}, DestroyKeyIds},
            inline : SUBSET {DestroyUser, DestroyRole}, role : BOOLEAN,
            attached : SUBSET PossibleAttachments,
            policies : SUBSET ToSet(DestroyPolicyNames),
            versions : SUBSET {"PaveBootstrapPolicy"}] :
        /\ ~a.user => a.keys = {} /\ DestroyUser \notin a.inline
        /\ ~a.role => DestroyRole \notin a.inline
        /\ \A t \in a.attached :
              /\ t[3] \in a.policies
              /\ t[1] = "user" => a.user
              /\ t[1] = "role" => a.role
        /\ a.versions \subseteq a.policies}

\* A set as the list an IAM listing returns it in.
Listed(S) == CHOOSE f \in [1..Cardinality(S) -> S] : ToSet(f) = S

\* One call of the AWS API: the function of the script that issues it, the
\* API, the entity and the item (a key id, a policy name) it is about.
Op(fn, api, entity, item) == [fn |-> fn, api |-> api, entity |-> entity, item |-> item]

\* What IAM and Secrets Manager answer to the call `op` in the account `a`.
Reply(a, op) ==
    CASE op.api = "delete_secret" ->
            IF a.secret THEN "ok" ELSE "ResourceNotFoundException"
      [] op.api \in {"list_access_keys", "list_attached_user_policies", "list_user_policies"} ->
            IF a.user THEN "ok" ELSE "NoSuchEntity"
      [] op.api = "delete_access_key" ->
            IF op.item \in a.keys THEN "ok" ELSE "NoSuchEntity"
      [] op.api \in {"detach_user_policy", "detach_role_policy", "detach_group_policy"} ->
            IF \E t \in a.attached : t[2] = op.entity /\ t[3] = op.item
               THEN "ok" ELSE "NoSuchEntity"
      [] op.api \in {"delete_user_policy", "delete_role_policy"} ->
            IF op.entity \in a.inline THEN "ok" ELSE "NoSuchEntity"
      [] op.api = "delete_user" ->
            IF ~a.user THEN "NoSuchEntity"
            ELSE IF a.keys # {} \/ DestroyUser \in a.inline
                    \/ \E t \in a.attached : t[2] = DestroyUser
                 THEN "DeleteConflict" ELSE "ok"
      [] op.api \in {"list_attached_role_policies", "list_role_policies"} ->
            IF a.role THEN "ok" ELSE "NoSuchEntity"
      [] op.api = "delete_role" ->
            IF ~a.role THEN "NoSuchEntity"
            ELSE IF DestroyRole \in a.inline \/ \E t \in a.attached : t[2] = DestroyRole
                 THEN "DeleteConflict" ELSE "ok"
      [] op.api \in {"list_entities_for_policy", "list_policy_versions"} ->
            IF op.entity \in a.policies THEN "ok" ELSE "NoSuchEntity"
      [] op.api = "delete_policy_version" ->
            IF op.entity \in a.versions THEN "ok" ELSE "NoSuchEntity"
      [] op.api = "delete_policy" ->
            IF op.entity \notin a.policies THEN "NoSuchEntity"
            ELSE IF op.entity \in a.versions \/ \E t \in a.attached : t[3] = op.entity
                 THEN "DeleteConflict" ELSE "ok"
      [] OTHER -> "ok"

\* The account after the call `op` that was answered with "ok".
Apply(a, op) ==
    CASE op.api = "delete_secret" -> [a EXCEPT !.secret = FALSE]
      [] op.api = "delete_access_key" -> [a EXCEPT !.keys = @ \ {op.item}]
      [] op.api \in {"detach_user_policy", "detach_role_policy", "detach_group_policy"} ->
            [a EXCEPT !.attached = {t \in @ : ~(t[2] = op.entity /\ t[3] = op.item)}]
      [] op.api \in {"delete_user_policy", "delete_role_policy"} ->
            [a EXCEPT !.inline = @ \ {op.entity}]
      [] op.api = "delete_user" -> [a EXCEPT !.user = FALSE]
      [] op.api = "delete_role" -> [a EXCEPT !.role = FALSE]
      [] op.api = "delete_policy_version" -> [a EXCEPT !.versions = @ \ {op.entity}]
      [] op.api = "delete_policy" -> [a EXCEPT !.policies = @ \ {op.entity}]
      [] OTHER -> a

\* The calls `ops` issued one after the other from the k-th on, until one is
\* not answered with "ok"; the call number `at`, if any, fails with `code`
\* whatever the account holds.
RECURSIVE Exec(_, _, _, _, _)
Exec(a, ops, k, at, code) ==
    IF k > Len(ops) THEN [acct |-> a, n |-> Len(ops), code |-> "ok"]
    ELSE LET c == IF at = k THEN code ELSE Reply(a, ops[k])
         IN  IF c # "ok" THEN [acct |-> a, n |-> k, code |-> c]
             ELSE Exec(Apply(a, ops[k]), ops, k + 1, at, code)

\* No failure, or the failure of one call of one function of the script for
\* a reason that is not in the account: an error response of AWS
\* (AccessDenied), or an exception that is no ClientError. A run meets at most
\* one such failure; NoSuchEntity and DeleteConflict follow from the account.
NoInjection == [fn |-> "", at |-> 0, code |-> "ok"]
Injections(fns) ==
    IF x_hit THEN {NoInjection}
    ELSE {NoInjection} \cup
         [fn : fns, at : 1..(Cardinality(DestroyKeyIds) + 2),
          code : {"AccessDenied", "Exception"}]

\* The try block of the function `fn`, issuing `ops`.
Run(fn, a, ops, inj) ==
    LET r == Exec(a, ops, 1, IF inj.fn = fn THEN inj.at ELSE 0, inj.code)
    IN  [acct |-> r.acct, log |-> SubSeq(ops, 1, r.n), code |-> r.code]

\* The try block ended with the failure that was drawn for the run.
Hit(r) == r.code \in {"AccessDenied", "Exception"}

\* An except clause that takes no error code for "does not exist".
Skips_never(error_code) == FALSE

\* `if error_code == "NoSuchEntity"`: the resource is not there, which is no error.
Skips(error_code) == error_code = "NoSuchEntity"

\* The return value of a function whose try block ended with `code`.
ReturnsTrue(code) == code = "ok" \/ Skips(code)

\* The line a function prints for the outcome `code` of its try block:
\* nothing for an exception it does not catch.
Printed(fn, entity, code) ==
    IF code = "Exception" THEN {}
    ELSE IF code = "ok" THEN {<<fn, entity, "done">>}
    ELSE IF Skips(code) THEN {<<fn, entity, "absent">>}
    ELSE {<<fn, entity, "error">>}

\* delete_access_keys(iam_client, "bootstrap-user")
delete_access_keys(a, inj) ==
    Run("delete_access_keys", a,
        <<Op("delete_access_keys", "list_access_keys", DestroyUser, "")>> \o
        [i \in 1..Cardinality(a.keys) |->
            Op("delete_access_keys", "delete_access_key", DestroyUser, Listed(a.keys)[i])],
        inj)

\* detach_user_policies(iam_client, "bootstrap-user")
detach_user_policies(a, inj) ==
    LET managed == Listed({t[3] : t \in {u \in a.attached : u[2] = DestroyUser}})
        inline == Listed(a.inline \cap {DestroyUser})
        fn == "detach_user_policies"
    IN Run(fn, a,
           <<Op(fn, "list_attached_user_policies", DestroyUser, "")>> \o
           [i \in DOMAIN managed |-> Op(fn, "detach_user_policy", DestroyUser, managed[i])] \o
           <<Op(fn, "list_user_policies", DestroyUser, "")>> \o
           [i \in DOMAIN inline |-> Op(fn, "delete_user_policy", DestroyUser, "inline")],
           inj)

\* delete_bootstrap_user(iam_client): what it did to the account, the calls
\* it issued, what it printed, and whether an exception left it.
delete_bootstrap_user(a, inj) ==
    LET fn == "delete_bootstrap_user"
        keys == delete_access_keys(a, inj)
        pols == detach_user_policies(keys.acct, inj)
        user == Run(fn, pols.acct, <<Op(fn, "delete_user", DestroyUser, "")>>, inj)
    IN  IF ~ReturnsTrue(keys.code)
           THEN [acct |-> keys.acct, log |-> keys.log,
                 printed |-> Printed("delete_access_keys", DestroyUser, keys.code),
                 raised |-> keys.code = "Exception", hit |-> Hit(keys)]
        ELSE IF ~ReturnsTrue(pols.code)
           THEN [acct |-> pols.acct, log |-> keys.log \o pols.log,
                 printed |-> Printed("delete_access_keys", DestroyUser, keys.code) \cup
                             Printed("detach_user_policies", DestroyUser, pols.code),
                 raised |-> pols.code = "Exception", hit |-> Hit(pols)]
        ELSE [acct |-> user.acct, log |-> keys.log \o pols.log \o user.log,
              printed |-> Printed("delete_access_keys", DestroyUser, keys.code) \cup
                          Printed("detach_user_policies", DestroyUser, pols.code) \cup
                          Printed(fn, DestroyUser, user.code),
              raised |-> user.code = "Exception", hit |-> Hit(user)]

\* delete_bootstrap_role(iam_client)
delete_bootstrap_role(a, inj) ==
    LET fn == "delete_bootstrap_role"
        managed == Listed({t[3] : t \in {u \in a.attached : u[2] = DestroyRole}})
        inline == Listed(a.inline \cap {DestroyRole})
        r == Run(fn, a,
                 <<Op(fn, "list_attached_role_policies", DestroyRole, "")>> \o
                 [i \in DOMAIN managed |-> Op(fn, "detach_role_policy", DestroyRole, managed[i])] \o
                 <<Op(fn, "list_role_policies", DestroyRole, "")>> \o
                 [i \in DOMAIN inline |-> Op(fn, "delete_role_policy", DestroyRole, "inline")] \o
                 <<Op(fn, "delete_role", DestroyRole, "")>>,
                 inj)
    IN  [acct |-> r.acct, log |-> r.log, printed |-> Printed(fn, DestroyRole, r.code),
         raised |-> r.code = "Exception", hit |-> Hit(r)]

\* The API that detaches a policy from an entity of the kind `kind`.
DetachApi(kind) ==
    CASE kind = "user" -> "detach_user_policy"
      [] kind = "role" -> "detach_role_policy"
      [] kind = "group" -> "detach_group_policy"

\* list_entities_for_policy's PolicyUsers, PolicyRoles and PolicyGroups, in
\* the order the loops of delete_bootstrap_policies go through them.
EntitiesFor(a, policy_name) ==
    Listed({t \in a.attached : t[3] = policy_name /\ t[1] = "user"}) \o
    Listed({t \in a.attached : t[3] = policy_name /\ t[1] = "role"}) \o
    Listed({t \in a.attached : t[3] = policy_name /\ t[1] = "group"})

\* One turn of the loop of delete_bootstrap_policies, for `policy_name`: the
\* account id, the inner try block that detaches the policy (a ClientError in
\* it is a warning at most), then the versions and delete_policy.
delete_bootstrap_policy(a, policy_name, inj) ==
    LET fn == "delete_bootstrap_policies"
        sts == Run("get_caller_identity", a,
                   <<Op(fn, "get_caller_identity", policy_name, "")>>, inj)
        entities == EntitiesFor(a, policy_name)
        detach == Run("detach_from_all_entities", a,
                      <<Op(fn, "list_entities_for_policy", policy_name, "")>> \o
                      [i \in DOMAIN entities |->
                          Op(fn, DetachApi(entities[i][1]), entities[i][2], policy_name)],
                      inj)
        versions == Listed(detach.acct.versions \cap {policy_name})
        delete == Run(fn, detach.acct,
                      <<Op(fn, "list_policy_versions", policy_name, "")>> \o
                      [i \in DOMAIN versions |->
                          Op(fn, "delete_policy_version", policy_name, "v1")] \o
                      <<Op(fn, "delete_policy", policy_name, "")>>,
                      inj)
        warned == IF detach.code \in {"ok", "NoSuchEntity", "Exception"} THEN {}
                  ELSE {<<"detach_from_all_entities", policy_name, "warning">>}
    IN  IF sts.code # "ok"
           THEN [acct |-> a, log |-> sts.log, printed |-> Printed(fn, policy_name, sts.code),
                 raised |-> sts.code = "Exception", hit |-> TRUE]
        ELSE IF detach.code = "Exception"
           THEN [acct |-> detach.acct, log |-> sts.log \o detach.log, printed |-> {},
                 raised |-> TRUE, hit |-> TRUE]
        ELSE [acct |-> delete.acct, log |-> sts.log \o detach.log \o delete.log,
              printed |-> warned \cup Printed(fn, policy_name, delete.code),
              raised |-> delete.code = "Exception", hit |-> Hit(detach) \/ Hit(delete)]

\* delete_credentials_from_secrets_manager(): catches every exception.
delete_credentials_from_secrets_manager(a, inj) ==
    LET fn == "delete_credentials_from_secrets_manager"
        r == Run(fn, a, <<Op(fn, "delete_secret", "pave/bootstrap-credentials", "")>>, inj)
    IN  [acct |-> r.acct, log |-> r.log,
         printed |-> IF r.code = "ok" THEN {<<fn, "", "done">>}
                     ELSE IF r.code = "ResourceNotFoundException" THEN {<<fn, "", "absent">>}
                     ELSE {<<fn, "", "error">>},
         raised |-> FALSE, hit |-> Hit(r)]

\* What the prompt "... (type 'yes'): " can be answered, and confirm.lower().
DestroyAnswers == {"yes", "YES", "y"}
LowerConfirm(confirm) ==
    CASE confirm = "YES" -> "yes"
      [] OTHER -> confirm

DestroyIdle ==
    /\ x_args = <<>>
    /\ x_before = <<>>
    /\ x_acct = <<>>
    /\ x_pc = "idle"
    /\ x_log = <<>>
    /\ x_printed = {}
    /\ x_hit = FALSE
    /\ x_exit = <<>>

DestroyInit ==
    /\ x_args \in [skip_confirm : {TRUE}, confirm : {""}] \cup
                  [skip_confirm : {FALSE}, confirm : DestroyAnswers]
    /\ x_before \in DestroyAccounts
    /\ x_acct = x_before
    /\ x_pc = "confirm"
    /\ x_log = <<>>
    /\ x_printed = {}
    /\ x_hit = FALSE
    /\ x_exit = <<>>

OutsideDestroy == <<cmp_vars, role_vars, drift_vars, disc_vars, retry_vars, boot_vars,
                    cleanup_vars, create_vars, rot_vars, backend_vars>>

\* main, the confirmation: without --skip-confirm an answer other than "yes"
\* in any case ends the run with sys.exit(0).
DestroyConfirm ==
    /\ x_pc = "confirm"
    /\ IF ~x_args.skip_confirm /\ LowerConfirm(x_args.confirm) # "yes"
          THEN x_pc' = "cancelled" /\ x_exit' = <<0>>
          ELSE x_pc' = "identity" /\ UNCHANGED x_exit
    /\ UNCHANGED <<x_args, x_before, x_acct, x_log, x_printed, x_hit, OutsideDestroy>>

\* main, the clients and sts.get_caller_identity(): sys.exit(1) on any
\* exception.
DestroyVerifyIdentity ==
    /\ x_pc = "identity"
    /\ x_log' = Append(x_log, Op("main", "get_caller_identity", "", ""))
    /\ \E ok \in BOOLEAN :
          IF ok THEN x_pc' = "secret" /\ UNCHANGED x_exit
          ELSE x_pc' = "failed" /\ x_exit' = <<1>>
    /\ UNCHANGED <<x_args, x_before, x_acct, x_printed, x_hit, OutsideDestroy>>

\* A step of main: `out` is what the function called did; main does not look
\* at its return value, and an exception ends the run in main's
\* `except Exception` with sys.exit(1).
DestroyStep(out, next) ==
    /\ x_acct' = out.acct
    /\ x_log' = x_log \o out.log
    /\ x_printed' = x_printed \cup out.printed
    /\ x_hit' = (x_hit \/ out.hit)
    /\ IF out.raised THEN x_pc' = "failed" /\ x_exit' = <<1>>
       ELSE /\ x_pc' = next
            /\ x_exit' = IF next = "done" THEN <<0>> ELSE x_exit
    /\ UNCHANGED <<x_args, x_before, OutsideDestroy>>

\* Step 1
DestroyDeleteCredentials ==
    /\ x_pc = "secret"
    /\ \E inj \in Injections({"delete_credentials_from_secrets_manager"}) :
          DestroyStep(delete_credentials_from_secrets_manager(x_acct, inj), "user")

\* Step 2
DestroyDeleteUser ==
    /\ x_pc = "user"
    /\ \E inj \in Injections({"delete_access_keys", "detach_user_policies",
                              "delete_bootstrap_user"}) :
          DestroyStep(delete_bootstrap_user(x_acct, inj), "role")

\* Step 3
DestroyDeleteRole ==
    /\ x_pc = "role"
    /\ \E inj \in Injections({"delete_bootstrap_role"}) :
          DestroyStep(delete_bootstrap_role(x_acct, inj), "policy1")

\* Step 4, delete_bootstrap_policies: a turn of its loop, and after the last
\* one "Bootstrap setup destroyed successfully!" and the end of main.
delete_bootstrap_policies ==
    /\ x_pc \in {"policy1", "policy2"}
    /\ \E inj \in Injections({"get_caller_identity", "detach_from_all_entities",
                              "delete_bootstrap_policies"}) :
          IF x_pc = "policy1"
             THEN DestroyStep(delete_bootstrap_policy(x_acct, DestroyPolicyNames[1], inj),
                              "policy2")
             ELSE DestroyStep(delete_bootstrap_policy(x_acct, DestroyPolicyNames[2], inj),
                              "done")

DestroyNext ==
    \/ DestroyConfirm
    \/ DestroyVerifyIdentity
    \/ DestroyDeleteCredentials
    \/ DestroyDeleteUser
    \/ DestroyDeleteRole
    \/ delete_bootstrap_policies

\* ------------------------------------------------------ backend_manager.py

\* s3_backend_block of switch_to_local_backend
s3_backend_block_note ==
    "  backend \"s3\" {\n    bucket = \"pave-tf-state-bucket-us-east-1\"\n    key    = \"pave/terraform.tfstate\"\n    region = \"us-east-1\"\n    # Note: This bucket is created by this same configuration on first run\n    # Use local backend initially, then migrate to S3 after bucket exists\n  }"

\* local_backend_block of both functions
local_backend_block ==
    "  # Using local backend temporarily for bucket creation\n  # backend \"s3\" {\n  #   bucket = \"pave-tf-state-bucket-us-east-1\"\n  #   key    = \"pave/terraform.tfstate\"\n  #   region = \"us-east-1\"\n  # }"

\* s3_backend_block of switch_to_s3_backend
s3_backend_block_shared ==
    "  backend \"s3\" {\n    bucket = \"pave-tf-state-bucket-us-east-1\"\n    key    = \"pave/terraform.tfstate\"\n    region = \"us-east-1\"\n    # Shared state across local, Act, and GitHub Actions deployments\n  }"

\* pave_infra.tf with `block` as the backend of its terraform block.
TfFile(block) == "terraform {\n" \o block \o "\n}\n"

\* The contents pave_infra.tf can have when the script is run.
TfContents ==
    {TfFile(s3_backend_block_note), TfFile(local_backend_block),
     TfFile(s3_backend_block_shared)}

\* content.replace(old, new) from the position i on: every occurrence of
\* old, left to right and not overlapping, becomes new.
RECURSIVE ReplaceFrom(_, _, _, _)
ReplaceFrom(content, i, old, new) ==
    LET found == {j \in i..(Len(content) - Len(old) + 1) :
                     SubSeq(content, j, j + Len(old) - 1) = old}
    IN  IF found = {} THEN SubSeq(content, i, Len(content))
        ELSE LET j == CHOOSE j \in found : \A k \in found : j <= k
             IN  SubSeq(content, i, j - 1) \o new
                     \o ReplaceFrom(content, j + Len(old), old, new)

\* content.replace(old, new)
Replace(content, old, new) == ReplaceFrom(content, 1, old, new)

\* What can go wrong in a switch: open(tf_file, "r") or open(tf_file, "w")
\* raises, or f.write raises after the file was truncated.
SwitchFaults == {"none", "read", "open_w", "write"}

\* The try block of a switch that replaces `old` by `new` in the file (<<>>:
\* no file, <<content>> otherwise): the file afterwards and the return value.
\* Every exception is caught and makes the function return False.
Switch(file, old, new, fault) ==
    IF file = <<>> \/ fault \in {"read", "open_w"} THEN [file |-> file, ret |-> FALSE]
    ELSE IF fault = "write" THEN [file |-> <<"">>, ret |-> FALSE]
    ELSE [file |-> <<Replace(file[1], old, new)>>, ret |-> TRUE]

switch_to_local_backend(file, fault) ==
    Switch(file, s3_backend_block_note, local_backend_block, fault)

switch_to_s3_backend(file, fault) ==
    Switch(file, local_backend_block, s3_backend_block_shared, fault)

\* The file has the local (commented-out) form / holds an active S3 backend.
IsLocalForm(file) == file = <<TfFile(local_backend_block)>>
IsS3Form(file) ==
    file \in {<<TfFile(s3_backend_block_note)>>, <<TfFile(s3_backend_block_shared)>>}

\* head_bucket: the bucket is there, is not (404), may not be looked at
\* (403), or the call raises something that is no ClientError.
HeadBucketReplies == {"ok", "404", "403", "Exception"}

\* A check that takes every answer but 404 for an existing bucket.
check_s3_bucket_exists_unless_404(reply) == reply # "404"

\* check_s3_bucket_exists: True only when head_bucket raised nothing; 404 and
\* every other ClientError are False.
check_s3_bucket_exists(reply) == reply = "ok"

\* The outcomes of `terraform init` and of `terraform init -migrate-state`:
\* return code 0, another return code, or no terraform in PATH.
TerraformOutcomes == {"ok", "nonzero", "FileNotFoundError"}

\* The steps of full_migration_workflow, as far as the run gets: `faults`
\* gives, per step, what goes wrong in it ("none": nothing).
full_migration_workflow(file, reply, faults) ==
    LET local == switch_to_local_backend(file, faults.switch)
        s3 == switch_to_s3_backend(file, faults.switch)
    IN  IF file # <<>> /\ faults.backup
           THEN [steps |-> <<"backup_terraform_file">>, file |-> file, exit |-> 1,
                 failed |-> "backup_terraform_file"]
        ELSE IF reply = "Exception"
           THEN [steps |-> <<"backup_terraform_file", "check_s3_bucket_exists">>,
                 file |-> file, exit |-> 1, failed |-> "check_s3_bucket_exists"]
        ELSE IF ~check_s3_bucket_exists(reply)
           THEN IF ~local.ret
                   THEN [steps |-> <<"backup_terraform_file", "check_s3_bucket_exists",
                                     "switch_to_local_backend">>,
                         file |-> local.file, exit |-> 1,
                         failed |-> "switch_to_local_backend"]
                ELSE IF faults.terraform # "ok"
                   THEN [steps |-> <<"backup_terraform_file", "check_s3_bucket_exists",
                                     "switch_to_local_backend", "terraform_init">>,
                         file |-> local.file, exit |-> 1, failed |-> "terraform_init"]
                ELSE [steps |-> <<"backup_terraform_file", "check_s3_bucket_exists",
                                  "switch_to_local_backend", "terraform_init">>,
                      file |-> local.file, exit |-> 0, failed |-> ""]
        ELSE IF ~s3.ret
           THEN [steps |-> <<"backup_terraform_file", "check_s3_bucket_exists",
                             "switch_to_s3_backend">>,
                 file |-> s3.file, exit |-> 1, failed |-> "switch_to_s3_backend"]
        ELSE IF faults.terraform # "ok"
           THEN [steps |-> <<"backup_terraform_file", "check_s3_bucket_exists",
                             "switch_to_s3_backend", "migrate_state_to_s3">>,
                 file |-> s3.file, exit |-> 1, failed |-> "migrate_state_to_s3"]
        ELSE [steps |-> <<"backup_terraform_file", "check_s3_bucket_exists",
                          "switch_to_s3_backend", "migrate_state_to_s3">>,
              file |-> s3.file, exit |-> 0, failed |-> ""]

BackendIdle ==
    /\ g_file = <<>>
    /\ g_backup = <<>>
    /\ g_runs = <<>>
    /\ g_on = FALSE

BackendInit ==
    /\ g_file \in {<<>>} \cup {<<c>> : c \in TfContents}
    /\ g_backup = <<>>
    /\ g_runs = <<>>
    /\ g_on = TRUE

OutsideBackend == <<cmp_vars, role_vars, drift_vars, disc_vars, retry_vars, boot_vars,
                    cleanup_vars, create_vars, rot_vars, destroy_vars>>

\* main with --local or --s3: backup_terraform_file, whose exception nothing
\* catches, then the switch; "Switched to ... backend configuration" is
\* printed when the switch returns True, and the exit status is 0 either way.
BackendSwitch(mode) ==
    /\ g_on /\ Len(g_runs) < MaxBackendRuns
    /\ \E backup_raises \in BOOLEAN, fault \in SwitchFaults :
          LET out == IF mode = "local" THEN switch_to_local_backend(g_file, fault)
                     ELSE switch_to_s3_backend(g_file, fault)
          IN  IF g_file # <<>> /\ backup_raises
                 THEN /\ g_runs' = Append(g_runs,
                             [mode |-> mode, before |-> g_file, after |-> g_file,
                              reply |-> "", steps |-> <<"backup_terraform_file">>,
                              switched |-> FALSE, failed |-> "backup_terraform_file",
                              exit |-> 1])
                      /\ UNCHANGED <<g_file, g_backup>>
                 ELSE /\ g_backup' = IF g_file # <<>> THEN g_file ELSE g_backup
                      /\ g_file' = out.file
                      /\ g_runs' = Append(g_runs,
                             [mode |-> mode, before |-> g_file, after |-> out.file,
                              reply |-> "",
                              steps |-> <<"backup_terraform_file",
                                          IF mode = "local" THEN "switch_to_local_backend"
                                          ELSE "switch_to_s3_backend">>,
                              switched |-> out.ret,
                              failed |-> IF out.ret THEN ""
                                         ELSE IF mode = "local" THEN "switch_to_local_backend"
                                         ELSE "switch_to_s3_backend",
                              exit |-> 0])
    /\ UNCHANGED <<g_on, OutsideBackend>>

BackendLocal == BackendSwitch("local")
BackendS3 == BackendSwitch("s3")

\* main with --migrate
BackendMigrate ==
    /\ g_on /\ Len(g_runs) < MaxBackendRuns
    /\ \E reply \in HeadBucketReplies,
          faults \in [backup : BOOLEAN, switch : SwitchFaults,
                      terraform : TerraformOutcomes] :
          LET out == full_migration_workflow(g_file, reply, faults)
          IN  /\ g_file' = out.file
              /\ g_backup' = IF g_file # <<>> /\ out.failed # "backup_terraform_file"
                             THEN g_file ELSE g_backup
              /\ g_runs' = Append(g_runs,
                     [mode |-> "migrate", before |-> g_file, after |-> out.file,
                      reply |-> IF Len(out.steps) > 1 THEN reply ELSE "",
                      steps |-> out.steps,
                      switched |-> out.failed \notin {"backup_terraform_file",
                                      "check_s3_bucket_exists", "switch_to_local_backend",
                                      "switch_to_s3_backend"},
                      failed |-> out.failed, exit |-> out.exit])
    /\ UNCHANGED <<g_on, OutsideBackend>>

BackendNext ==
    \/ BackendLocal
    \/ BackendS3
    \/ BackendMigrate

\* ------------------------------------------------------------ specifications

InitCompare == CmpInit /\ RoleIdle /\ DriftIdle /\ DiscIdle /\ RetryIdle
    /\ BootIdle /\ CleanupIdle /\ CreateIdle /\ RotateIdle /\ DestroyIdle /\ BackendIdle
SpecCompare == InitCompare /\ [][CmpNext]_vars

InitRole == RoleInit /\ CmpIdle /\ DriftIdle /\ DiscIdle /\ RetryIdle
    /\ BootIdle /\ CleanupIdle /\ CreateIdle /\ RotateIdle /\ DestroyIdle /\ BackendIdle
SpecRole == InitRole /\ [][RoleNext]_vars

InitDrift == DriftInit /\ CmpIdle /\ RoleIdle /\ DiscIdle /\ RetryIdle
    /\ BootIdle /\ CleanupIdle /\ CreateIdle /\ RotateIdle /\ DestroyIdle /\ BackendIdle
SpecDrift == InitDrift /\ [][DriftNext]_vars

InitDiscovery == DiscInit /\ CmpIdle /\ RoleIdle /\ DriftIdle /\ RetryIdle
    /\ BootIdle /\ CleanupIdle /\ CreateIdle /\ RotateIdle /\ DestroyIdle /\ BackendIdle
SpecDiscovery == InitDiscovery /\ [][DiscNext]_vars

\* retry_with_backoff runs in a single thread: func returns or raises, and
\* time.sleep ends, so the loop always takes its next step.
InitRetry == RetryInit /\ CmpIdle /\ RoleIdle /\ DriftIdle /\ DiscIdle
    /\ BootIdle /\ CleanupIdle /\ CreateIdle /\ RotateIdle /\ DestroyIdle /\ BackendIdle
SpecRetry == InitRetry /\ [][RetryNext]_vars /\ WF_vars(RetryNext)

\* create_bootstrap.py run NumRuns times, one run after the other.
InitBootstrap == BootInit /\ CmpIdle /\ RoleIdle /\ DriftIdle /\ DiscIdle
    /\ RetryIdle /\ CleanupIdle /\ CreateIdle /\ RotateIdle /\ DestroyIdle /\ BackendIdle
SpecBootstrap == InitBootstrap /\ [][BootNextInTurn]_vars

\* create_bootstrap.py run by two operators at once.
SpecBootstrapConcurrent == InitBootstrap /\ [][BootNextConcurrent]_vars

\* create_bootstrap_user, create_bootstrap_policy and create_bootstrap_role,
\* each called once, in any order, on an account.
InitCreate == CreateInit /\ CmpIdle /\ RoleIdle /\ DriftIdle /\ DiscIdle
    /\ RetryIdle /\ BootIdle /\ CleanupIdle /\ RotateIdle /\ DestroyIdle /\ BackendIdle
SpecCreate == InitCreate /\ [][CreateNext]_vars

\* One run of cleanup.py.
InitCleanupRun == CleanupInit /\ CmpIdle /\ RoleIdle /\ DriftIdle /\ DiscIdle
    /\ RetryIdle /\ BootIdle /\ CreateIdle /\ RotateIdle /\ DestroyIdle /\ BackendIdle
SpecCleanup == InitCleanupRun /\ [][CleanupNext]_vars

\* One run of rotate_keys.py.
InitRotate == RotateInit /\ CmpIdle /\ RoleIdle /\ DriftIdle /\ DiscIdle
    /\ RetryIdle /\ BootIdle /\ CleanupIdle /\ CreateIdle /\ DestroyIdle /\ BackendIdle
SpecRotate == InitRotate /\ [][RotateNext]_vars

\* One run of destroy_bootstrap.py.
InitDestroy == DestroyInit /\ CmpIdle /\ RoleIdle /\ DriftIdle /\ DiscIdle
    /\ RetryIdle /\ BootIdle /\ CleanupIdle /\ CreateIdle /\ RotateIdle /\ BackendIdle
SpecDestroy == InitDestroy /\ [][DestroyNext]_vars

\* backend_manager.py run up to MaxBackendRuns times, one run after the other.
InitBackend == BackendInit /\ CmpIdle /\ RoleIdle /\ DriftIdle /\ DiscIdle
    /\ RetryIdle /\ BootIdle /\ CleanupIdle /\ CreateIdle /\ RotateIdle /\ DestroyIdle
SpecBackend == InitBackend /\ [][BackendNext]_vars

\* One run of one of the two destructive scripts, cleanup.py or
\* destroy_bootstrap.py.
InitCleanupOrDestroy == InitCleanupRun \/ InitDestroy
CleanupOrDestroyNext == CleanupNext \/ DestroyNext
SpecCleanupOrDestroy == InitCleanupOrDestroy /\ [][CleanupOrDestroyNext]_vars


\* ------------------------------------------------------------ claims C1, C2

\* The comparator that cmp_fn names, applied to the lists a and e.
CmpApply(a, e) ==
    IF cmp_fn = "compare_policies"
        THEN compare_policies(a, e, CmpResource)
        ELSE compare_inline_policies(a, e, CmpResource)

\* The names the AWS-observed list carries, and the expected names.
CmpObserved ==
    {n \in PolicyNames :
        \E i \in DOMAIN cmp_aws :
            IF cmp_fn = "compare_policies" THEN cmp_aws[i].name = n
                                           ELSE cmp_aws[i] = n}

CmpExpected == {n \in PolicyNames : \E j \in DOMAIN cmp_expected : cmp_expected[j] = n}

CmpIssuesOfKind(kind) ==
    {k \in DOMAIN cmp_ret[1].issues : cmp_ret[1].issues[k].kind = kind}

\* C1: the comparator reports as missing exactly the names expected but not
\* observed and as extra exactly the names observed but not expected; there is
\* one Missing issue iff missing is non-empty, one Extra issue iff extra is
\* non-empty, no other issue, and the call fails iff there is an issue. The
\* same holds of compare_inline_policies.
C1_MissingExtraExact ==
    cmp_ret # <<>> =>
        LET missing == {n \in PolicyNames : n \in CmpExpected /\ n \notin CmpObserved}
            extra == {n \in PolicyNames : n \in CmpObserved /\ n \notin CmpExpected}
            issues == cmp_ret[1].issues
        IN  /\ Cardinality(CmpIssuesOfKind("Missing")) = (IF missing # {} THEN 1 ELSE 0)
            /\ Cardinality(CmpIssuesOfKind("Extra")) = (IF extra # {} THEN 1 ELSE 0)
            /\ \A k \in CmpIssuesOfKind("Missing") : issues[k].names = missing
            /\ \A k \in CmpIssuesOfKind("Extra") : issues[k].names = extra
            /\ \A k \in DOMAIN issues : issues[k].kind \in {"Missing", "Extra"}
            /\ cmp_ret[1].passed = (missing = {} /\ extra = {})

\* Observed {A, B} against expected {B, C}: missing {C}, extra {A}, failure.
C1_Witness ==
    /\ cmp_fn = "compare_policies"
    /\ cmp_ret # <<>>
    /\ CmpObserved = {"A", "B"}
    /\ CmpExpected = {"B", "C"}
    /\ ~cmp_ret[1].passed
    /\ Len(cmp_ret[1].issues) = 2
    /\ cmp_ret[1].issues[1].names = {"C"}
    /\ cmp_ret[1].issues[2].names = {"A"}

\* C2: the comparison passes with zero issues iff the two lists are equal as
\* sets; permuting either list, or repeating an element of either list, gives
\* the same result.
C2_SetSemantics ==
    cmp_ret # <<>> =>
        /\ (cmp_ret[1].passed /\ cmp_ret[1].issues = <<>>) <=> (CmpObserved = CmpExpected)
        /\ cmp_ret[1].passed <=> (cmp_ret[1].issues = <<>>)
        /\ \A p \in Permutations(DOMAIN cmp_aws) :
                \A q \in Permutations(DOMAIN cmp_expected) :
                    CmpApply(Permute(cmp_aws, p), Permute(cmp_expected, q)) = cmp_ret[1]
        /\ \A i \in DOMAIN cmp_aws :
                CmpApply(Append(cmp_aws, cmp_aws[i]), cmp_expected) = cmp_ret[1]
        /\ \A j \in DOMAIN cmp_expected :
                CmpApply(cmp_aws, Append(cmp_expected, cmp_expected[j])) = cmp_ret[1]

\* Three observed policies, one name twice, in another order than the two
\* expected names: the comparison passes.
C2_Witness ==
    /\ cmp_fn = "compare_policies"
    /\ cmp_ret # <<>>
    /\ cmp_ret[1].passed
    /\ Len(cmp_aws) = 3
    /\ Len(cmp_expected) = 2
    /\ cmp_aws[1].name # cmp_expected[1]
    /\ cmp_aws[1].name = cmp_aws[3].name
    /\ cmp_aws[1].arn # cmp_aws[3].arn

\* ------------------------------------------------------------ claims C4, C5

\* The bootstrap resources: the three names cleanup.py protects, and the user
\* create_bootstrap.py creates and validate_bootstrap.py requires.
BootstrapResourceNames ==
    {"pave-bootstrap-user", "bootstrap-user", "PaveBootstrapRole", "PaveBootstrapPolicy"}

\* The names of the deletion candidates a discovery function returned.
DiscCandidateNames ==
    IF disc_fn = "find_pave_policies"
        THEN {disc_ret[1].value[i].name : i \in DOMAIN disc_ret[1].value}
        ELSE ToSet(disc_ret[1].value)

\* C4: whatever users, roles and policies the account lists, no discovery
\* function returns a bootstrap resource as a deletion candidate.
C4_BootstrapNeverCandidate ==
    disc_ret # <<>> => DiscCandidateNames \cap BootstrapResourceNames = {}

\* The account lists bootstrap-user next to admin-user: only admin-user is a
\* candidate.
C4_Witness ==
    /\ disc_fn = "find_pave_users"
    /\ disc_ret # <<>>
    /\ disc_reply = Ok(<<"bootstrap-user", "admin-user">>)
    /\ disc_ret[1].value = <<"admin-user">>

\* The rule by which find_pave_users selects a name.
IsPaveUserName(n) ==
    \/ n = "admin-user"
    \/ n = "developer-user"
    \/ \E i \in 1..(Len(n) - 10) : SubSeq(n, i, i + 10) = "admin-user-"
    \/ \E i \in 1..(Len(n) - 14) : SubSeq(n, i, i + 14) = "developer-user-"

\* C5: find_pave_users returns exactly the listed names that are admin-user or
\* developer-user or contain admin-user- or developer-user-, each once and in
\* listing order.
C5_PaveUsersExactly ==
    (disc_fn = "find_pave_users" /\ disc_ret # <<>> /\ disc_reply.err = "none") =>
        LET listed == disc_reply.val
            found == disc_ret[1].value
        IN  /\ disc_ret[1].raised = "none"
            /\ \A n \in UserNames :
                  Cardinality({i \in DOMAIN found : found[i] = n})
                      = (IF n \in ToSet(listed) /\ IsPaveUserName(n) THEN 1 ELSE 0)
            /\ \A i, j \in DOMAIN found :
                  i < j => \E a, b \in DOMAIN listed :
                              a < b /\ listed[a] = found[i] /\ listed[b] = found[j]

\* x-admin-user-1 holds admin-user- in its middle and is listed before
\* developer-user: both are returned, in that order.
C5_Witness ==
    /\ disc_fn = "find_pave_users"
    /\ disc_ret # <<>>
    /\ disc_reply = Ok(<<"x-admin-user-1", "developer-user">>)
    /\ disc_ret[1].value = <<"x-admin-user-1", "developer-user">>

\* ------------------------------------------------------------------ claim C3

\* Some statement of the trust policy AWS returned carries the admin-user ARN
\* as its Principal.AWS: as the string itself, or as an element of the list.
RoleCarriesAdminArn ==
    \E k \in DOMAIN role_reply.role.val.Statement :
        LET principal == role_reply.role.val.Statement[k].Principal
        IN  /\ principal.isdict
            /\ "AWS" \in DOMAIN principal.d
            /\ \/ principal.d["AWS"].isstr /\ principal.d["AWS"].s = admin_user_arn
               \/ /\ ~principal.d["AWS"].isstr
                  /\ \E j \in DOMAIN principal.d["AWS"].l :
                        principal.d["AWS"].l[j] = admin_user_arn

RoleReported ==
    \E k \in DOMAIN role_ret[1].issues : role_ret[1].issues[k].kind = "CannotBeAssumed"

\* C3: in the check of an existing DeveloperRole, the issue 'DeveloperRole
\* cannot be assumed by admin-user' is reported iff no statement of the trust
\* policy has the admin-user ARN as its Principal.AWS (a string, or one
\* element of a list), whatever the other statements are.
C3_AssumableIffArnPresent ==
    (role_fn = "check_developer_role" /\ role_ret # <<>> /\ role_reply.role.err = "none")
        => /\ role_ret[1].raised = "none"
           /\ RoleReported <=> ~RoleCarriesAdminArn
           /\ RoleReported => ~role_ret[1].passed

\* A policy of two statements, the second with the ARN in a list after another
\* principal: the role counts as assumable and the check passes.
C3_Witness ==
    /\ role_fn = "check_developer_role"
    /\ role_ret # <<>>
    /\ role_reply.role.err = "none"
    /\ Len(role_reply.role.val.Statement) = 2
    /\ role_reply.role.val.Statement[1].Principal = PrincipalStar
    /\ role_reply.role.val.Statement[2].Principal
            = PrincipalDict(Obj("AWS", Lst(<<other_user_arn, admin_user_arn>>)))
    /\ role_ret[1].passed

\* ------------------------------------------------------- claims C7, C8, C9

\* The API calls of one check, in the order get_user_info / get_role_info
\* issues them.
ApiOf(name, k) ==
    IF name \in {"developer-user", "admin-user"}
        THEN <<"list_attached_user_policies", "list_user_policies",
               "list_groups_for_user">>[k]
        ELSE <<"get_role", "list_attached_role_policies", "list_role_policies">>[k]

\* C7: when the user or role being checked does not exist in AWS (the call
\* that reads it answers NoSuchEntity), its check returns failure with exactly
\* one issue, '<name> does not exist in AWS', and makes no attached-policy,
\* inline-policy, group or trust-policy comparison.
C7_MissingResourceShortCircuits ==
    \A i \in DOMAIN d_results :
        d_results[i].err = "NoSuchEntity" =>
            /\ d_results[i].raised = "none"
            /\ ~d_results[i].passed
            /\ d_results[i].issues = <<DoesNotExist(d_results[i].name)>>
            /\ d_results[i].compared = <<>>

\* developer-user and DeveloperRole are both absent from the account.
C7_Witness ==
    /\ d_exit # <<>>
    /\ d_results[1].err = "NoSuchEntity"
    /\ d_results[3].err = "NoSuchEntity"
    /\ d_results[1].issues = <<DoesNotExist("developer-user")>>
    /\ d_results[3].issues = <<DoesNotExist("DeveloperRole")>>

\* C8: an AWS API error other than 'not found' while the state of a user or
\* role is read makes the check of that resource fail and the run report
\* drift (exit status 1); the failing call is the last call issued for that
\* resource and appears once among all the calls of the run.
C8_ApiErrorFailsCheckOnce ==
    \A i \in DOMAIN d_results :
        d_results[i].err \in {"AccessDenied", "EndpointConnectionError"} =>
            LET r == d_results[i]
                failing == Call(ApiOf(r.name, r.err_at), r.name)
            IN  /\ r.raised # "none" \/ ~r.passed
                /\ ~d_all_checks_passed
                /\ d_exit # <<>> => d_exit = <<1>>
                /\ Len(r.calls) = r.err_at
                /\ r.calls[r.err_at] = failing
                /\ Cardinality({k \in DOMAIN d_calls : d_calls[k] = failing}) = 1

\* list_user_policies is denied for admin-user, every other check passes, and
\* the run exits 1.
C8_Witness ==
    /\ d_exit = <<1>>
    /\ d_results[2].err = "AccessDenied"
    /\ d_results[2].err_at = 2
    /\ d_results[1].passed
    /\ d_results[3].passed
    /\ d_results[4].passed

\* C9: a run that has exited has run the four checks in order; the pass flag
\* a check returns is true exactly when its issue list is empty; the exit
\* status is 0 exactly when all four checks returned passed, and 1 otherwise,
\* an exception in a check counting as a failed check.
C9_AllChecksRunExitStatus ==
    /\ \A i \in DOMAIN d_results :
          /\ d_results[i].name = checks[i]
          /\ d_results[i].raised = "none" =>
                (d_results[i].passed <=> d_results[i].issues = <<>>)
    /\ d_exit # <<>> =>
          /\ Len(d_results) = 4
          /\ d_exit = <<IF \A i \in DOMAIN d_results :
                              d_results[i].raised = "none" /\ d_results[i].passed
                          THEN 0 ELSE 1>>

\* The first check raises, the three later ones run and pass, the run exits 1.
C9_Witness ==
    /\ d_exit = <<1>>
    /\ d_results[1].raised = "EndpointConnectionError"
    /\ d_results[2].passed
    /\ d_results[3].passed
    /\ d_results[4].passed
    /\ Len(d_all_issues) = 1

\* ----------------------------------------------------------------- claim C10

RetryDone == r_pc \in {"returned", "raised"}

\* C10: retry_with_backoff always terminates, by returning the result of func
\* or by raising, after at most max_attempts calls of func and at most
\* max_attempts - 1 sleeps; when every attempt fails with a retryable error,
\* the exception raised is the one of the last attempt.
C10_RetryTerminatesBounded ==
    /\ <>RetryDone
    /\ [](/\ r_calls <= r_max_attempts
          /\ Len(r_sleeps) <= r_max_attempts - 1
          /\ RetryDone => r_calls >= 1
          /\ (r_pc = "returned") => r_out[1] = "returned"
          /\ (/\ r_pc = "raised"
              /\ \A k \in DOMAIN r_errors : is_credential_error(r_errors[k]))
                => /\ r_calls = r_max_attempts
                   /\ r_out = <<"raised", r_errors[r_max_attempts]>>
                   /\ r_errors[r_max_attempts].attempt = r_max_attempts - 1)

\* Six calls fail with a retryable error: five sleeps, and the sixth error is
\* raised.
C10_Witness ==
    /\ r_pc = "raised"
    /\ r_max_attempts = 6
    /\ r_calls = 6
    /\ Len(r_sleeps) = 5
    /\ \A k \in DOMAIN r_errors : is_credential_error(r_errors[k])
    /\ r_out = <<"raised", r_errors[6]>>

\* ------------------------------------------------------------ claims C11, C12

\* C11: the k-th sleep of a call (k from 0) lasts initial_delay * 2^k - the
\* first lasts initial_delay and each next one twice the one before - and a
\* sleep follows only a failed attempt that is not the last: when the call has
\* ended, by a return or a raise, there is one sleep fewer than calls of func.
C11_DelaysDouble ==
    /\ r_sleeps # <<>> => r_sleeps[1] = r_initial_delay
    /\ \A k \in DOMAIN r_sleeps : k > 1 => r_sleeps[k] = 2 * r_sleeps[k - 1]
    /\ r_pc = "loop" => Len(r_sleeps) = r_calls
    /\ RetryDone => Len(r_sleeps) = r_calls - 1
    /\ Len(r_sleeps) <= r_max_attempts - 1

\* The defaults, every attempt failing with a retryable error: the sleeps are
\* 1, 2, 4, 8, 16 and none follows the sixth attempt.
C11_Witness ==
    /\ r_pc = "raised"
    /\ r_max_attempts = 6
    /\ r_initial_delay = 1
    /\ r_calls = 6
    /\ r_sleeps = <<1, 2, 4, 8, 16>>

\* C12: func is called again only after an error that the keyword test takes
\* for a credential error. An error that matches no keyword is raised as it
\* is, right after the call that failed with it, without a sleep; a value func
\* returns is returned; and once the call has ended func is not called again.
C12_OnlyCredentialErrorsRetried ==
    /\ [](/\ \A k \in DOMAIN r_errors :
                 k < Len(r_errors) => is_credential_error(r_errors[k])
          /\ \A k \in DOMAIN r_errors :
                 ~is_credential_error(r_errors[k]) =>
                     /\ k = Len(r_errors)
                     /\ r_pc = "raised"
                     /\ r_out = <<"raised", r_errors[k]>>
                     /\ r_calls = k
                     /\ Len(r_sleeps) = k - 1
          /\ r_pc = "returned" =>
                 /\ r_out[1] = "returned"
                 /\ r_calls = Len(r_errors) + 1)
    /\ [][RetryDone => r_calls' = r_calls /\ r_sleeps' = r_sleeps]_vars

\* Two credential errors, then an error that matches no keyword: it is raised
\* after the third call and two sleeps, with attempts to spare.
C12_Witness ==
    /\ r_pc = "raised"
    /\ r_max_attempts = 6
    /\ r_calls = 3
    /\ Len(r_sleeps) = 2
    /\ r_errors[3].msg = "An error occurred (NoSuchEntity)"
    /\ r_out = <<"raised", r_errors[3]>>

\* ------------------------------------------------------------ claim C13

\* C13 as stated: in every run, once an AWS operation of a step has failed -
\* step 0 included - the run has ended with exit status 1 and executes no
\* later step.
C13_FirstFailureEndsRun ==
    \A r \in DOMAIN b_pc :
        b_faulted[r] => b_pc[r] = "failed" /\ b_exit[r] = <<1>>

\* ------------------------------------------------------------ claims C14, C16

\* The (operation, name) pairs in the log.
CleanupAttempted == {c_log[k] : k \in DOMAIN c_log}

\* The delete calls that main owes its candidates.
CleanupOwed(kinds) ==
    (IF "user" \in kinds
        THEN {<<"delete_user", c_found.users[k]>> : k \in DOMAIN c_found.users} ELSE {})
    \cup (IF "role" \in kinds
        THEN {<<"delete_role", c_found.roles[k]>> : k \in DOMAIN c_found.roles} ELSE {})
    \cup (IF "policy" \in kinds
        THEN {<<"delete_policy", c_found.policies[k].name>> : k \in DOMAIN c_found.policies}
        ELSE {})
    \cup (IF "bucket" \in kinds
        THEN {<<"delete_bucket", c_found.buckets[k]>> : k \in DOMAIN c_found.buckets} ELSE {})

\* C14: a ClientError while a discovered resource is removed never ends the
\* run (only an exception that is no ClientError does); each cleanup_* loop
\* attempts the delete call of every name in its list, and a run that found
\* something ends after cleanup_local_files has run.
C14_CleanupContinues ==
    /\ c_pc = "crashed" => "Exception" \in c_faults
    /\ c_pc \in {"roles", "policies", "buckets", "local"} =>
          CleanupOwed({"user"}) \subseteq CleanupAttempted
    /\ c_pc \in {"policies", "buckets", "local"} =>
          CleanupOwed({"user", "role"}) \subseteq CleanupAttempted
    /\ c_pc \in {"buckets", "local"} =>
          CleanupOwed({"user", "role", "policy"}) \subseteq CleanupAttempted
    /\ c_pc = "local" =>
          CleanupOwed({"user", "role", "policy", "bucket"}) \subseteq CleanupAttempted
    /\ (c_pc = "done" /\ c_found # NothingFound) =>
          /\ CleanupOwed({"user", "role", "policy", "bucket"}) \subseteq CleanupAttempted
          /\ <<"cleanup_local_files", "">> \in CleanupAttempted

\* The deletion of admin-user fails; developer-user, a role, the policy and the
\* bucket are deleted all the same, and the local files are cleaned.
C14_Witness ==
    /\ c_pc = "done"
    /\ c_found.users = <<"admin-user", "developer-user">>
    /\ c_failed = {<<"user", "admin-user">>}
    /\ <<"user", "admin-user">> \notin c_removed
    /\ {<<"user", "developer-user">>, <<"role", "DeveloperRole">>,
        <<"policy", "PaveAdminPolicy">>,
        <<"bucket", "pave-tf-state-bucket-us-east-1">>, <<"local", "files">>}
          \subseteq c_removed

\* C16 as stated: cleanup.py exits with 0 only when no AWS error was met while
\* listing or deleting, and with 1 otherwise.
C16_ExitReflectsFailures ==
    c_exit # <<>> => (c_exit = <<0>> <=> c_faults = {})

\* ------------------------------------------------------------ claim C15

\* The ARN under which the resource a create function is about exists.
ExistingArn(fn) ==
    CASE fn = "create_bootstrap_user" -> "arn:aws:iam::256140316797:user/bootstrap-user"
      [] fn = "create_bootstrap_policy" ->
            "arn:aws:iam::256140316797:policy/PaveBootstrapPolicy"
      [] fn = "create_bootstrap_role" -> "arn:aws:iam::256140316797:role/PaveBootstrapRole"

ConventionNames ==
    {"admin-user", "developer-user", "CICDDeploymentRole", "DeveloperRole",
     "CICDS3SpecificAccess", "PaveAdminPolicy", "pave-tf-state-bucket-us-east-1"}

\* C17 as stated: every name a discovery function returns as a deletion
\* candidate is a convention name or begins with one; a name that holds a
\* convention name only further in is no candidate.
C17_CandidatesMatchByPrefix ==
    disc_ret # <<>> =>
        \A n \in DiscCandidateNames :
            \E c \in ConventionNames : n = c \/ StartsWith(n, c)

\* ------------------------------------------------------------ claim C18

\* Some statement of the trust policy AWS returned names the GitHub OIDC
\* provider as its Principal.Federated: as the string itself, or as an element
\* of the list.
RoleNamesOidcProvider ==
    \E k \in DOMAIN role_reply.role.val.Statement :
        LET principal == role_reply.role.val.Statement[k].Principal
        IN  /\ principal.isdict
            /\ "Federated" \in DOMAIN principal.d
            /\ \/ /\ principal.d["Federated"].isstr
                  /\ principal.d["Federated"].s
                        = "arn:aws:iam::256140316797:oidc-provider/token.actions.githubusercontent.com"
               \/ /\ ~principal.d["Federated"].isstr
                  /\ \E i \in DOMAIN principal.d["Federated"].l :
                        principal.d["Federated"].l[i]
                            = "arn:aws:iam::256140316797:oidc-provider/token.actions.githubusercontent.com"

\* C18 as stated: in the check of an existing CICDDeploymentRole, the issue
\* 'CICDDeploymentRole cannot be assumed by GitHub Actions OIDC' is reported
\* only when no statement names the provider, be it as a string or in a list.
C18_OidcStringOrList ==
    (role_fn = "check_cicd_role" /\ role_ret # <<>> /\ role_reply.role.err = "none")
        => (RoleReported => ~RoleNamesOidcProvider)

\* ------------------------------------------------------------ claim C19

\* C19: once a run of create_bootstrap.py has ended with "Bootstrap setup
\* completed successfully" (exit code 0), the account holds bootstrap-user,
\* PaveBootstrapRole and PaveBootstrapPolicy.
C19_SuccessLeavesUserRolePolicy ==
    \A r \in DOMAIN b_pc :
        b_pc[r] = "done" => b_user /\ b_role /\ b_policy

\* ------------------------------------------------------------ claim C20

\* C20: rotate_keys.py never deletes an access key: every key the user had
\* when the run began still exists, the compromised key has its old status or
\* Inactive, and every other key has the status it had.
C20_RotationDeletesNoKey ==
    \A k \in DOMAIN k_before :
        /\ k \in DOMAIN k_keys
        /\ k_keys[k] # k_before[k] =>
               k = k_args.compromised_key /\ k_keys[k] = "Inactive"

\* A run that ended with "Key rotation completed successfully!" after it
\* deactivated the user's active compromised key.
C20_Witness ==
    /\ k_pc = "done"
    /\ k_exit = <<0>>
    /\ k_args.compromised_key \in DOMAIN k_before
    /\ k_before[k_args.compromised_key] = "Active"
    /\ k_keys[k_args.compromised_key] = "Inactive"
    /\ NewKeyId \in DOMAIN k_keys

\* ------------------------------------------------------------ claim C25

\* The position of the first call of `api` in the log, 0 when there is none.
FirstCall(log, api) ==
    IF \E i \in DOMAIN log : log[i][1] = api
       THEN CHOOSE i \in DOMAIN log :
               log[i][1] = api /\ \A j \in 1..(i - 1) : log[j][1] # api
       ELSE 0

\* C25: rotate_keys.py deactivates the compromised key only after it has
\* created a new key: update_access_key is never issued before a
\* create_access_key that returned; a run whose key creation failed has
\* exit status 1 and left every key's status as it was; and a user who had an
\* active key has one at every point of every run.
C25_DeactivatesOnlyAfterNewKey ==
    /\ FirstCall(k_log, "update_access_key") # 0 =>
           /\ FirstCall(k_log, "create_access_key") # 0
           /\ FirstCall(k_log, "create_access_key") < FirstCall(k_log, "update_access_key")
           /\ k_new = <<NewKeyId>>
           /\ NewKeyId \in DOMAIN k_keys /\ k_keys[NewKeyId] = "Active"
    /\ (k_pc = "failed" /\ FirstCall(k_log, "create_access_key") # 0 /\ k_new = <<>>) =>
           /\ k_exit = <<1>>
           /\ \A k \in DOMAIN k_before : k \in DOMAIN k_keys /\ k_keys[k] = k_before[k]
    /\ (\E k \in DOMAIN k_before : k_before[k] = "Active") =>
           \E k \in DOMAIN k_keys : k_keys[k] = "Active"

\* A run that ended with status 1 because the user already held two keys,
\* the compromised one among them and still active.
C25_Witness ==
    /\ k_pc = "failed"
    /\ k_exit = <<1>>
    /\ Cardinality(DOMAIN k_before) = AccessKeysPerUser
    /\ FirstCall(k_log, "create_access_key") # 0
    /\ k_args.compromised_key \in DOMAIN k_before
    /\ k_before[k_args.compromised_key] = "Active"
    /\ k_keys = k_before

\* ------------------------------------------------------------ claim C29

\* C29: once a run of create_bootstrap.py has exited with 0 (and no later run
\* has started), bootstrap-user holds exactly one access key, the one the run
\* stored in pave/bootstrap-credentials and in .secrets, and none of the keys
\* the user had before the run.
C29_OneKeyAfterSuccess ==
    \A r \in DOMAIN b_pc :
        (b_pc[r] = "done" /\ \A q \in Runs : q > r => b_pc[q] = "idle") =>
            /\ b_keys = {b_local[r].access_key}
            /\ b_secret = <<b_local[r].access_key>>
            /\ b_file # <<>> /\ b_file[1].key = b_local[r].access_key
            /\ b_keys \cap b_before[r][1].keys = {}

\* ------------------------------------------------------------ claim C23

\* C23: whenever .secrets holds the access key a run of create_bootstrap.py
\* has created, the file's mode is 600.
C23_NewKeyOnlyUnderMode600 ==
    \A r \in DOMAIN b_pc :
        (b_file # <<>> /\ b_local[r].access_key # 0
            /\ b_file[1].key = b_local[r].access_key) =>
                b_file[1].mode = SecretsFileMode

\* ------------------------------------------------------------ claim C22

\* C22: two concurrent runs of create_bootstrap.py are not protected from
\* each other. A step 0 that meets no error deletes every access key it finds
\* on bootstrap-user, whichever run created it, and the key a run has created
\* disappears from IAM only through the step 0 of the other run.
C22_Step0RemovesOtherRunsKey ==
    [][\A q \in ConcurrentRuns :
          /\ (b_pc[q] = "step0" /\ b_pc'[q] = "step1" /\ ~b_faulted'[q]) =>
                 b_keys' \cap b_keys = {}
          /\ (b_local[q].access_key \in b_keys /\ b_local[q].access_key \notin b_keys') =>
                 \E r \in ConcurrentRuns \ {q} : b_pc[r] = "step0" /\ b_pc'[r] # "step0"
      ]_vars

\* The run q has reported success, none of its operations having failed,
\* while the key it stored in the secret and in .secrets is not in IAM; the
\* other run r deleted it before q reported: .secrets.backup holds r's key, so
\* r's step 7, and with it r's step 0, came before q's step 7.
C22_Witness ==
    \E q \in ConcurrentRuns, r \in ConcurrentRuns :
        /\ q # r
        /\ b_pc # <<>>
        /\ b_pc[q] = "done"
        /\ b_exit[q] = <<0>>
        /\ ~b_faulted[q]
        /\ b_local[q].access_key # 0
        /\ b_local[q].access_key \notin b_keys
        /\ b_secret = <<b_local[q].access_key>>
        /\ b_file = <<[key |-> b_local[q].access_key, mode |-> SecretsFileMode]>>
        /\ b_local[r].access_key # 0
        /\ b_backup # <<>>
        /\ b_backup[1].key = b_local[r].access_key

\* ------------------------------------------------------------ claim C24

\* The place of an operation in main's order: the listings, the users, the
\* roles, the managed policies, the buckets, the local files.
CleanupRank(op) ==
    CASE op \in {"list_users", "list_roles", "list_policies", "list_buckets"} -> 0
      [] op \in {"cleanup_user_access_keys", "cleanup_user_policies", "delete_user"} -> 1
      [] op \in {"cleanup_role_policies", "delete_role"} -> 2
      [] op = "delete_policy" -> 3
      [] op \in {"empty_s3_bucket", "delete_bucket"} -> 4
      [] op = "cleanup_local_files" -> 5

IssuedBefore(i, api, entity, item) ==
    \E j \in 1..(i - 1) :
        x_log[j].api = api /\ x_log[j].entity = entity /\ x_log[j].item = item

\* C28: in destroy_bootstrap.py, delete_user is issued only when every access
\* key of bootstrap-user has been deleted and every managed and inline policy
\* of the user detached or deleted; when delete_access_keys or
\* detach_user_policies has reported an error, delete_user is not issued and
\* the user stays. A bootstrap policy that the run has deleted was detached
\* from every user, role and group and rid of its non-default versions
\* before. A run in which no call fails for a reason outside the account
\* prints no error, reports each resource that does not exist as such, and
\* exits with 0.
C28_UserAndPolicyDeletedLast ==
    /\ \A i \in DOMAIN x_log :
           x_log[i].api = "delete_user" =>
              /\ \A k \in x_before.keys : IssuedBefore(i, "delete_access_key", DestroyUser, k)
              /\ \A t \in x_before.attached :
                     t[2] = DestroyUser =>
                        IssuedBefore(i, "detach_user_policy", DestroyUser, t[3])
              /\ DestroyUser \in x_before.inline =>
                     IssuedBefore(i, "delete_user_policy", DestroyUser, "inline")
              /\ x_acct.keys = {}
              /\ DestroyUser \notin x_acct.inline
              /\ \A t \in x_acct.attached : t[2] # DestroyUser
    /\ (\/ <<"delete_access_keys", DestroyUser, "error">> \in x_printed
        \/ <<"detach_user_policies", DestroyUser, "error">> \in x_printed) =>
           /\ \A i \in DOMAIN x_log : x_log[i].api # "delete_user"
           /\ x_acct.user = x_before.user
    /\ \A i \in DOMAIN x_log :
           (x_log[i].api = "delete_policy" /\ x_log[i].entity \in x_before.policies
               /\ x_log[i].entity \notin x_acct.policies) =>
              /\ IssuedBefore(i, "list_entities_for_policy", x_log[i].entity, "")
              /\ IssuedBefore(i, "list_policy_versions", x_log[i].entity, "")
              /\ \A t \in x_before.attached :
                     t[3] = x_log[i].entity =>
                        IssuedBefore(i, DetachApi(t[1]), t[2], t[3])
              /\ x_log[i].entity \in x_before.versions =>
                     IssuedBefore(i, "delete_policy_version", x_log[i].entity, "v1")
              /\ \A t \in x_acct.attached : t[3] # x_log[i].entity
              /\ x_log[i].entity \notin x_acct.versions
    /\ (x_pc = "done" /\ ~x_hit) =>
           /\ x_exit = <<0>>
           /\ \A m \in x_printed : m[3] \in {"done", "absent"}
           /\ ~x_before.user =>
                  <<"delete_bootstrap_user", DestroyUser, "absent">> \in x_printed
           /\ ~x_before.role =>
                  <<"delete_bootstrap_role", DestroyRole, "absent">> \in x_printed
           /\ \A n \in ToSet(DestroyPolicyNames) \ x_before.policies :
                  <<"delete_bootstrap_policies", n, "absent">> \in x_printed

\* A finished run that deleted bootstrap-user, which had two keys, an inline
\* policy and PaveBootstrapPolicy attached, then the policy, which had a
\* second version, and found no BootstrapTerraformPolicy.
C28_Witness ==
    /\ x_pc = "done"
    /\ x_before.user /\ ~x_acct.user
    /\ x_before.keys = DestroyKeyIds
    /\ DestroyUser \in x_before.inline
    /\ <<"user", DestroyUser, "PaveBootstrapPolicy">> \in x_before.attached
    /\ x_before.versions = {"PaveBootstrapPolicy"}
    /\ x_before.policies = {"PaveBootstrapPolicy"}
    /\ x_acct.policies = {}
    /\ <<"delete_bootstrap_policies", "BootstrapTerraformPolicy", "absent">> \in x_printed

\* ------------------------------------------------------------ claim C21

\* C21: without --skip-confirm, cleanup.py and destroy_bootstrap.py have
\* issued no AWS call and removed nothing while the prompt is unanswered;
\* after an answer other than y (cleanup.py) or yes (destroy_bootstrap.py) in
\* any case the run is over with exit status 0, no call issued, and the
\* account and the local files as they were.
C21_NothingBeforeConfirmation ==
    /\ (c_pc # "idle" /\ ~c_args.skip_confirm) =>
           /\ c_pc = "confirm" => c_log = <<>> /\ c_removed = {} /\ c_exit = <<>>
           /\ c_args.confirmation \notin {"y", "Y"} =>
                  /\ c_log = <<>> /\ c_removed = {}
                  /\ c_pc \in {"confirm", "cancelled"}
                  /\ c_pc = "cancelled" => c_exit = <<0>>
    /\ (x_pc # "idle" /\ ~x_args.skip_confirm) =>
           /\ x_pc = "confirm" => x_log = <<>> /\ x_acct = x_before /\ x_exit = <<>>
           /\ x_args.confirm \notin {"yes", "YES"} =>
                  /\ x_log = <<>> /\ x_acct = x_before
                  /\ x_pc \in {"confirm", "cancelled"}
                  /\ x_pc = "cancelled" => x_exit = <<0>>

\* destroy_bootstrap.py, asked against an account that holds bootstrap-user,
\* was answered y - enough for cleanup.py, not for this script - and ended
\* with status 0.
C21_Witness ==
    /\ x_pc = "cancelled"
    /\ x_exit = <<0>>
    /\ ~x_args.skip_confirm
    /\ x_args.confirm = "y"
    /\ x_before.user /\ x_before.keys # {}
    /\ x_acct = x_before

\* ---------------------------------------------------------------- claim C26

\* The run i of backend_manager.py was a switch of this mode that printed
\* "Switched to ... backend configuration".
ReportedSwitch(i, mode) ==
    /\ i \in DOMAIN g_runs
    /\ g_runs[i].mode = mode
    /\ g_runs[i].switched

\* C26: a --local run that reports "Switched to local backend configuration"
\* leaves pave_infra.tf in the local form and a --s3 run that reports
\* "Switched to S3 backend configuration" leaves it with an S3 backend; in
\* particular a --local run that follows a --s3 run which produced an S3
\* backend block turns the file back into the local form.
C26_SwitchesAreInverse ==
    \A i \in DOMAIN g_runs :
        /\ ReportedSwitch(i, "local") => IsLocalForm(g_runs[i].after)
        /\ ReportedSwitch(i, "s3") => IsS3Form(g_runs[i].after)

\* A --s3 run turned the local form into an S3 backend, and the --local run
\* after it reported the switch and left the S3 backend in the file.
C26_RoundTripBroken ==
    \E i \in DOMAIN g_runs :
        /\ i > 1
        /\ ReportedSwitch(i - 1, "s3")
        /\ IsLocalForm(g_runs[i - 1].before)
        /\ IsS3Form(g_runs[i - 1].after)
        /\ ReportedSwitch(i, "local")
        /\ g_runs[i].after = g_runs[i - 1].after

\* ---------------------------------------------------------------- claim C27

\* The steps of the two branches of full_migration_workflow, in their order.
LocalBranch ==
    <<"backup_terraform_file", "check_s3_bucket_exists",
      "switch_to_local_backend", "terraform_init">>
S3Branch ==
    <<"backup_terraform_file", "check_s3_bucket_exists",
      "switch_to_s3_backend", "migrate_state_to_s3">>

IsPrefix(s, t) == Len(s) <= Len(t) /\ s = SubSeq(t, 1, Len(s))

InSteps(run, step) == \E k \in DOMAIN run.steps : run.steps[k] = step

RerunFinished(r) ==
    IF r = 1 THEN FALSE
    ELSE /\ b_exit[r - 1] = <<0>>
         /\ Finished(r)
         /\ ~b_faulted[r]
         /\ \A q \in Runs : q > r => b_pc[q] = "idle"

====
